---- MODULE Spec2Model ----
(***************************************************************************)
(* Quiz session state machine, answer grader and spaced-repetition (SRS)   *)
(* scheduler of the Gemini Quiz Master application (the App component).    *)
(*                                                                         *)
(* Strings that the code inspects character by character (question text,   *)
(* options, answers) are sequences of character codes, so that             *)
(* toLowerCase, String(), join and generateHash are computed as the code   *)
(* computes them.  A JavaScript value is a record                          *)
(*   [t : type tag, b : boolean payload, s : string payload,               *)
(*    a : array-of-strings payload]                                        *)
(* with the unused payloads at their defaults.                             *)
(***************************************************************************)
EXTENDS Integers, Sequences, FiniteSets, TLC

(***************************************************************************)
(* Bounds of the model.                                                    *)
(***************************************************************************)
\* the clock can be advanced this many days
MaxDays == 1
\* a record's success streak is not driven beyond this value
MaxRepetition == 2

(***************************************************************************)
(* JavaScript values.                                                      *)
(***************************************************************************)
Undef == [t |-> "undefined", b |-> FALSE, s |-> <<>>, a |-> <<>>]

Null == [t |-> "null", b |-> FALSE, s |-> <<>>, a |-> <<>>]

Bool(x) == [t |-> "boolean", b |-> x, s |-> <<>>, a |-> <<>>]

Str(x) == [t |-> "string", b |-> FALSE, s |-> x, a |-> <<>>]

Arr(x) == [t |-> "array", b |-> FALSE, s |-> <<>>, a |-> x]

\* JavaScript truthiness of a value
Truthy(v) ==
    CASE v.t \in {"undefined", "null"} -> FALSE
      [] v.t = "boolean" -> v.b
      [] v.t = "string" -> v.s # <<>>
      [] OTHER -> TRUE

IsArray(v) == v.t = "array"

\* character codes of the literals the code compares with
s_true == <<116, 114, 117, 101>>

s_false == <<102, 97, 108, 115, 101>>

s_undefined == <<117, 110, 100, 101, 102, 105, 110, 101, 100>>

s_null == <<110, 117, 108, 108>>

\* "Unknown Answer"
s_UnknownAnswer == <<85, 110, 107, 110, 111, 119, 110, 32, 65, 110, 115, 119, 101, 114>>

\* "Question text missing"
s_TextMissing == <<81, 117, 101, 115, 116, 105, 111, 110, 32, 116, 101, 120, 116, 32, 109, 105, 115, 115, 105, 110, 103>>

\* Array.prototype.join(",")
RECURSIVE Join(_)
Join(xs) ==
    IF xs = <<>> THEN <<>>
    ELSE IF Len(xs) = 1 THEN xs[1]
    ELSE xs[1] \o <<44>> \o Join(Tail(xs))

\* String(v)
ToStr(v) ==
    CASE v.t = "undefined" -> s_undefined
      [] v.t = "null" -> s_null
      [] v.t = "boolean" -> (IF v.b THEN s_true ELSE s_false)
      [] v.t = "string" -> v.s
      [] OTHER -> Join(v.a)

LowerChar(c) == IF c >= 65 /\ c <= 90 THEN c + 32 ELSE c

\* String.prototype.toLowerCase
ToLowerCase(s) == [i \in 1..Len(s) |-> LowerChar(s[i])]

IsSpace(c) == c \in {9, 10, 11, 12, 13, 32}

\* String.prototype.trim
RECURSIVE TrimLeft(_)
TrimLeft(s) ==
    IF s # <<>> /\ IsSpace(s[1]) THEN TrimLeft(Tail(s)) ELSE s

RECURSIVE TrimRight(_)
TrimRight(s) ==
    IF s # <<>> /\ IsSpace(s[Len(s)]) THEN TrimRight(SubSeq(s, 1, Len(s) - 1)) ELSE s

Trim(s) == TrimRight(TrimLeft(s))

\* s.replace(/\s+/g, ' ')
RECURSIVE CollapseSpaces(_)
CollapseSpaces(s) ==
    IF s = <<>> THEN <<>>
    ELSE IF IsSpace(s[1])
         THEN <<32>> \o CollapseSpaces(TrimLeft(s))
         ELSE <<s[1]>> \o CollapseSpaces(Tail(s))

\* variant: whitespace runs inside an item are kept
normalizeNoCollapse(s) == ToLowerCase(Trim(s))

\* the normalize helper of isRankingCorrect
normalize(s) == CollapseSpaces(ToLowerCase(Trim(s)))

isRankingCorrect(correct, answer) ==
    IF ~IsArray(correct) \/ ~IsArray(answer) THEN FALSE
    ELSE IF Len(correct.a) # Len(answer.a) THEN FALSE
    ELSE \A i \in 1..Len(correct.a) : normalize(correct.a[i]) = normalize(answer.a[i])

(***************************************************************************)
(* generateHash: 32-bit arithmetic, written so that no intermediate value  *)
(* leaves the 32-bit range.                                                *)
(***************************************************************************)
MinInt32 == (0 - 2147483647) - 1

\* (a + b) | 0 for 32-bit a and b
Add32(x, y) ==
    IF x >= 0 /\ y >= 0 /\ y > 2147483647 - x
    THEN (x + MinInt32) + (y + MinInt32)
    ELSE IF x < 0 /\ y < 0 /\ y < MinInt32 - x
         THEN (x - MinInt32) + (y - MinInt32)
         ELSE x + y

\* -x | 0
Neg32(x) == IF x = MinInt32 THEN MinInt32 ELSE 0 - x

\* x << 5
Shl5(x) ==
    LET low27 == x % 134217728
        low26 == low27 % 67108864
    IN  IF low27 >= 67108864 THEN low26 * 32 + MinInt32 ELSE low26 * 32

\* Number.prototype.toString(16) of a non-negative integer, as hex digits
RECURSIVE Hex(_)
Hex(n) == IF n < 16 THEN <<n>> ELSE Hex(n \div 16) \o <<n % 16>>

\* hash = ((hash << 5) - hash) + char; hash |= 0
HashStep(hash, char) == Add32(Add32(Shl5(hash), Neg32(hash)), char)

\* the for loop; h is bound to the value of one iteration before the next
RECURSIVE HashLoop(_, _)
HashLoop(hash, str) ==
    IF str = <<>> THEN hash
    ELSE CHOOSE r \in {HashLoop(h, Tail(str)) : h \in {HashStep(hash, str[1])}} : TRUE

generateHash(str) ==
    IF Len(str) = 0 THEN <<0>>
    ELSE LET h == HashLoop(0, str)
         IN  Hex(IF h < 0 THEN 0 - h ELSE h)

(***************************************************************************)
(* Question normalizer: the formattedQuestions map of generateQuiz.        *)
(* A raw record q has the fields type and explanation (strings compared    *)
(* only with literals, "" when missing), text (character codes, <<>> when  *)
(* missing) and the JavaScript values options, correctAnswerBoolean,       *)
(* correctAnswerArray, correctAnswerString, correctAnswer and answer.      *)
(***************************************************************************)
\* 1. Determine Type
InferType(q) ==
    IF q.correctAnswerBoolean # Undef \/ q.correctAnswerBoolean # Null THEN "TRUE_FALSE"
    ELSE IF IsArray(q.correctAnswerArray) THEN "RANKING"
    ELSE "MULTIPLE_CHOICE"

NormalizeTypeName(type) ==
    LET t1 == IF type = "Multiple Choice" \/ type = "MCQ" THEN "MULTIPLE_CHOICE" ELSE type
        t2 == IF t1 = "True False" \/ t1 = "True/False" THEN "TRUE_FALSE" ELSE t1
    IN  IF t2 = "Ranking" THEN "RANKING" ELSE t2

ResolveType(q) == NormalizeTypeName(IF q.type = "" THEN InferType(q) ELSE q.type)

\* 2. Extract Answer with Fallbacks
TrueFalseAnswer(q) ==
    IF q.correctAnswerBoolean.t = "boolean" THEN q.correctAnswerBoolean
    ELSE IF q.answer.t = "boolean" THEN q.answer
    ELSE IF q.correctAnswer.t = "boolean" THEN q.correctAnswer
    ELSE IF ToLowerCase(ToStr(q.correctAnswerBoolean)) = s_true THEN Bool(TRUE)
    ELSE IF ToLowerCase(ToStr(q.correctAnswerBoolean)) = s_false THEN Bool(FALSE)
    ELSE IF ToLowerCase(ToStr(q.correctAnswer)) = s_true THEN Bool(TRUE)
    ELSE IF ToLowerCase(ToStr(q.correctAnswer)) = s_false THEN Bool(FALSE)
    ELSE Bool(FALSE)

RankingAnswer(q) ==
    LET found == IF IsArray(q.correctAnswerArray) THEN q.correctAnswerArray
                 ELSE IF IsArray(q.correctAnswer) THEN q.correctAnswer
                 ELSE IF IsArray(q.answer) THEN q.answer
                 ELSE Undef
    IN  IF ~Truthy(found) \/ Len(found.a) = 0
        THEN (IF Truthy(q.options) THEN q.options ELSE Arr(<<>>))
        ELSE found

MultipleChoiceAnswer(q) ==
    LET found == IF Truthy(q.correctAnswerString) THEN q.correctAnswerString
                 ELSE IF Truthy(q.correctAnswer) THEN q.correctAnswer
                 ELSE IF Truthy(q.answer) THEN q.answer
                 ELSE Undef
    IN  IF ~Truthy(found) THEN Str(s_UnknownAnswer) ELSE found

FormatQuestion(q, index) ==
    LET type == ResolveType(q)
    IN  [id |-> index,
         type |-> type,
         text |-> IF q.text # <<>> THEN q.text ELSE s_TextMissing,
         options |-> IF Truthy(q.options) THEN q.options.a ELSE <<>>,
         correctAnswer |-> IF type = "TRUE_FALSE" THEN TrueFalseAnswer(q)
                           ELSE IF type = "RANKING" THEN RankingAnswer(q)
                           ELSE MultipleChoiceAnswer(q),
         explanation |-> IF q.explanation # "" THEN q.explanation
                         ELSE "No explanation provided."]

formattedQuestions(parsedQuestions) ==
    [i \in 1..Len(parsedQuestions) |-> FormatQuestion(parsedQuestions[i], i - 1)]

(***************************************************************************)
(* Answer grader: the verdict computed by handleAnswer.                    *)
(***************************************************************************)
\* variant: the strings are compared as they are
GradeCaseSensitive(question, answer) ==
    IF question.type = "TRUE_FALSE" \/ question.type = "MULTIPLE_CHOICE"
    THEN ToStr(answer) = ToStr(question.correctAnswer)
    ELSE IF question.type = "RANKING"
         THEN isRankingCorrect(question.correctAnswer, answer)
         ELSE FALSE

Grade(question, answer) ==
    IF question.type = "TRUE_FALSE" \/ question.type = "MULTIPLE_CHOICE"
    THEN ToLowerCase(ToStr(answer)) = ToLowerCase(ToStr(question.correctAnswer))
    ELSE IF question.type = "RANKING"
         THEN isRankingCorrect(question.correctAnswer, answer)
         ELSE FALSE

(***************************************************************************)
(* SRS scheduler.  The item of localStorage under SRS_STORAGE_KEY is       *)
(*   [kind |-> "absent"]  getItem returns null                             *)
(*   [kind |-> "json"]    the serialized map data (contentId -> SRSItem)   *)
(*   [kind |-> "corrupt"] a string JSON.parse rejects                      *)
(* Time is counted in days: DayMs is one day in clock units.               *)
(***************************************************************************)
DayMs == 1

EmptyMap == [k \in {} |-> 0]

Absent == [kind |-> "absent", data |-> EmptyMap]

Corrupt == [kind |-> "corrupt", data |-> EmptyMap]

Stored(data) == [kind |-> "json", data |-> data]

\* Object.values(data).filter(item => item.nextReview <= now), as a set of keys
\* variant: item.nextReview < now
DueKeysStrict(data, now) == {k \in DOMAIN data : data[k].nextReview < now}

DueKeys(data, now) == {k \in DOMAIN data : data[k].nextReview <= now}

\* the value updateSRSStats gives srsDueCount
DueCount(storage, now, old) ==
    CASE storage.kind = "json" -> Cardinality(DueKeys(storage.data, now))
      [] storage.kind = "absent" -> 0
      [] OTHER -> old

\* Leitner-ish increase
NextInterval(currentInterval) ==
    IF currentInterval >= 14 THEN 30
    ELSE IF currentInterval >= 7 THEN 14
    ELSE IF currentInterval >= 3 THEN 7
    ELSE IF currentInterval >= 1 THEN 3
    ELSE 1

\* existing ? existing.interval : 0
CurrentInterval(data, id) == IF id \in DOMAIN data THEN data[id].interval ELSE 0

\* existing?.repetition || 0
CurrentRepetition(data, id) == IF id \in DOMAIN data THEN data[id].repetition ELSE 0

\* variant: the interval is stored but not added to the review time
SuccessItemDueNow(id, question, data, now) ==
    [id |-> id,
     question |-> question,
     interval |-> NextInterval(CurrentInterval(data, id)),
     repetition |-> CurrentRepetition(data, id) + 1,
     nextReview |-> now]

\* the item written for a correct answer
SuccessItem(id, question, data, now) ==
    [id |-> id,
     question |-> question,
     interval |-> NextInterval(CurrentInterval(data, id)),
     repetition |-> CurrentRepetition(data, id) + 1,
     nextReview |-> now + NextInterval(CurrentInterval(data, id)) * DayMs]

\* variant: the record carries the id of the question in its session
FailureItemSessionId(id, question, now) ==
    [id |-> Hex(question.id), question |-> question, interval |-> 0, repetition |-> 0,
     nextReview |-> now]

\* variant: a failed item is due a day later
FailureItemDueTomorrow(id, question, now) ==
    [id |-> id,
     question |-> question,
     interval |-> 0,
     repetition |-> 0,
     nextReview |-> now + DayMs]

\* Reset on failure
FailureItem(id, question, now) ==
    [id |-> id,
     question |-> question,
     interval |-> 0,
     repetition |-> 0,
     nextReview |-> now]

\* variant: a question without a record is never recorded
SkipUpdateWhenNew(hasExisting, isCorrect) == ~hasExisting

\* variant: every graded answer is tracked
SkipUpdateNever(hasExisting, isCorrect) == FALSE

\* first-sight correct answers are not tracked
SkipUpdate(hasExisting, isCorrect) == ~hasExisting /\ isCorrect

\* variant: the map is built anew on every update instead of read
handleSRSUpdateFresh(storage, question, isCorrect, now) ==
    IF storage.kind = "corrupt" THEN storage
    ELSE LET id == generateHash(question.text)
         IN  IF SkipUpdate(FALSE, isCorrect) THEN storage
             ELSE Stored([k \in {id} |-> IF isCorrect
                                          THEN SuccessItem(id, question, EmptyMap, now)
                                          ELSE FailureItem(id, question, now)])

\* the storage item after handleSRSUpdate(question, isCorrect) at time now
handleSRSUpdate(storage, question, isCorrect, now) ==
    IF storage.kind = "corrupt" THEN storage
    ELSE LET data == storage.data
             id == generateHash(question.text)
             hasExisting == id \in DOMAIN data
         IN  IF SkipUpdate(hasExisting, isCorrect) THEN storage
             ELSE LET newItem == IF isCorrect
                                 THEN SuccessItem(id, question, data, now)
                                 ELSE FailureItem(id, question, now)
                  IN  Stored([k \in DOMAIN data \cup {id} |->
                                 IF k = id THEN newItem ELSE data[k]])

(***************************************************************************)
(* Inputs: what the provider can answer and what the user can type.        *)
(***************************************************************************)
RawBase ==
    [type |-> "", text |-> <<>>, options |-> Undef,
     correctAnswerBoolean |-> Undef, correctAnswerArray |-> Undef,
     correctAnswerString |-> Undef, correctAnswer |-> Undef, answer |-> Undef,
     explanation |-> ""]

\* TRUE_FALSE question "Aa", answer true
rawTF ==
    [RawBase EXCEPT !.type = "TRUE_FALSE", !.text = <<65, 97>>,
                    !.correctAnswerBoolean = Bool(TRUE), !.explanation = "e1"]

\* multiple choice question "BB" (generateHash("BB") = generateHash("Aa")),
\* options "x" and "Y", answer "y"
rawMC ==
    [RawBase EXCEPT !.type = "MCQ", !.text = <<66, 66>>,
                    !.options = Arr(<< <<120>>, <<89>> >>),
                    !.correctAnswerString = Str(<<121>>)]

\* ranking question "C#" (the same hash again), items "q", "p", correct
\* order "P", "q "
rawRank ==
    [RawBase EXCEPT !.type = "Ranking", !.text = <<67, 35>>,
                    !.options = Arr(<< <<113>>, <<112>> >>),
                    !.correctAnswerArray = Arr(<< <<80>>, <<113, 32>> >>)]

\* the question batches a response can carry
Batches == { <<>>, <<rawTF, rawMC>>, <<rawRank>> }

KeyConceptLists == { <<>>, <<"concept">> }

\* the outcomes of the provider call of generateQuiz:
\*   reject   the call rejects with an error carrying message ("" = none)
\*   badjson  response.text is not JSON
\*   ok       response.text parses; shape tells where the questions are:
\*            "object" {questions, keyConcepts}, "array" a bare array,
\*            "other" an object without a questions array
Response(kind, shape, qs, kc, msg) ==
    [kind |-> kind, shape |-> shape, questions |-> qs, keyConcepts |-> kc, message |-> msg]

Responses ==
    { Response("reject", "other", <<>>, <<>>, "quota exceeded"),
      Response("reject", "other", <<>>, <<>>, ""),
      Response("badjson", "other", <<>>, <<>>, "Unexpected token") }
    \cup { Response("ok", "object", qs, kc, "") : qs \in Batches, kc \in KeyConceptLists }
    \cup { Response("ok", "array", qs, <<>>, "") : qs \in Batches }
    \cup { Response("ok", "other", <<>>, kc, "") : kc \in KeyConceptLists }

\* the outcomes of the provider call of extractTopics: a topics array or a failure
TopicLists == { <<>>, <<"topic">> }

ScanResponses == [ok : {TRUE}, topics : TopicLists] \cup { [ok |-> FALSE, topics |-> <<>>] }

Range(f) == { f[i] : i \in DOMAIN f }

\* the sequences that list every element of S once
Orderings(S) ==
    { f \in [1..Cardinality(S) -> S] : \A i, j \in 1..Cardinality(S) : f[i] = f[j] => i = j }

(***************************************************************************)
(* State of the App component, the storage item and the clock.             *)
(***************************************************************************)
VARIABLES
    quizState,            \* QuizState
    materialText,         \* "" or the text the user supplied
    config,               \* [enableSummary, enableTopicFilter]
    availableTopics,
    selectedTopics,
    isAnalyzingTopics,    \* a topic scan is in flight
    quizSummary,
    questions,
    currentQuestionIndex,
    userAnswers,
    error,                \* "" stands for null
    isProcessingFile,     \* a file upload is in flight
    rankingOrder,
    srsDueCount,
    storage,              \* localStorage item SRS_STORAGE_KEY
    now,                  \* Date.now(), in days
    pendingGen,           \* generateQuiz calls awaiting the provider
    attempt               \* i of the callGeminiWithRetry loop of the call in flight

vars ==
    <<quizState, materialText, config, availableTopics, selectedTopics,
      isAnalyzingTopics, quizSummary, questions, currentQuestionIndex,
      userAnswers, error, isProcessingFile, rankingOrder, srsDueCount,
      storage, now, pendingGen, attempt>>

QuizStates ==
    {"SETUP", "TOPIC_SELECTION", "GENERATING", "KNOWLEDGE", "PLAYING", "SUMMARY", "REVIEW"}

Init ==
    /\ quizState = "SETUP"
    /\ materialText = ""
    /\ config = [enableSummary |-> TRUE, enableTopicFilter |-> FALSE]
    /\ availableTopics = <<>>
    /\ selectedTopics = <<>>
    /\ isAnalyzingTopics = FALSE
    /\ quizSummary = <<>>
    /\ questions = <<>>
    /\ currentQuestionIndex = 0
    /\ userAnswers = <<>>
    /\ error = ""
    /\ isProcessingFile = FALSE
    /\ rankingOrder = <<>>
    /\ srsDueCount = 0
    /\ storage = Absent
    /\ now = 0
    /\ pendingGen = 0
    /\ attempt = 0

(***************************************************************************)
(* Effects.                                                                *)
(***************************************************************************)
\* useEffect(updateSRSStats, [quizState]): the due count after a step that
\* takes quizState from old to new
StatsEffect(oldState, newState, store, count) ==
    IF newState # oldState THEN DueCount(store, now, count) ELSE count

\* useEffect on [currentQuestionIndex, questions]: the ranking order after
\* the question list or the index was set
RankingEffect(qs, idx, order) ==
    IF Len(qs) > 0 /\ idx < Len(qs) /\ qs[idx + 1].type = "RANKING"
    THEN qs[idx + 1].options
    ELSE order

(***************************************************************************)
(* SETUP view.                                                             *)
(***************************************************************************)
HasContent == materialText # ""

\* textarea onChange: the text becomes blank or not
SetMaterialText ==
    /\ quizState = "SETUP"
    /\ materialText' = IF materialText = "" THEN "lecture notes" ELSE ""
    /\ UNCHANGED <<quizState, config, availableTopics, selectedTopics,
                   isAnalyzingTopics, quizSummary, questions, currentQuestionIndex,
                   userAnswers, error, rankingOrder, srsDueCount,
                   storage, now, pendingGen, isProcessingFile, attempt>>

ToggleSummary ==
    /\ quizState = "SETUP"
    /\ config' = [config EXCEPT !.enableSummary = ~config.enableSummary]
    /\ UNCHANGED <<quizState, materialText, availableTopics, selectedTopics,
                   isAnalyzingTopics, quizSummary, questions, currentQuestionIndex,
                   userAnswers, error, rankingOrder, srsDueCount,
                   storage, now, pendingGen, isProcessingFile, attempt>>

ToggleTopicFilter ==
    /\ quizState = "SETUP"
    /\ config' = [config EXCEPT !.enableTopicFilter = ~config.enableTopicFilter]
    /\ UNCHANGED <<quizState, materialText, availableTopics, selectedTopics,
                   isAnalyzingTopics, quizSummary, questions, currentQuestionIndex,
                   userAnswers, error, rankingOrder, srsDueCount,
                   storage, now, pendingGen, isProcessingFile, attempt>>

\* handleMaterialUpload / handleTranscriptUpload up to the first await
HandleUpload ==
    /\ quizState = "SETUP"
    /\ ~isProcessingFile
    /\ isProcessingFile' = TRUE
    /\ error' = ""
    /\ UNCHANGED <<quizState, materialText, config, availableTopics, selectedTopics,
                   isAnalyzingTopics, quizSummary, questions, currentQuestionIndex,
                   userAnswers, rankingOrder, srsDueCount, storage, now, pendingGen, attempt>>

\* the upload handler after the files were read (ok) or reading threw
HandleUploadDone(ok) ==
    /\ isProcessingFile
    /\ isProcessingFile' = FALSE
    /\ IF ok
       THEN materialText' = "lecture notes" /\ UNCHANGED error
       ELSE error' = "Error processing material files. Note: Scanned PDFs (images) are not supported yet." /\ UNCHANGED materialText
    /\ UNCHANGED <<quizState, config, availableTopics, selectedTopics,
                   isAnalyzingTopics, quizSummary, questions, currentQuestionIndex,
                   userAnswers, rankingOrder, srsDueCount, storage, now, pendingGen, attempt>>

\* disabled={isProcessingFile || isAnalyzingTopics}
MainButtonEnabled == ~isProcessingFile /\ ~isAnalyzingTopics

\* extractTopics up to its await
ExtractTopics ==
    /\ quizState = "SETUP"
    /\ config.enableTopicFilter
    /\ MainButtonEnabled
    /\ IF ~HasContent
       THEN error' = "Please provide content to scan for topics."
            /\ UNCHANGED isAnalyzingTopics
       ELSE isAnalyzingTopics' = TRUE /\ error' = ""
    /\ UNCHANGED <<quizState, materialText, config, availableTopics, selectedTopics,
                   quizSummary, questions, currentQuestionIndex, userAnswers, rankingOrder, srsDueCount, storage, now, pendingGen, isProcessingFile, attempt>>

\* extractTopics after its await: the provider answered r
ExtractTopicsResolve(r) ==
    /\ isAnalyzingTopics
    /\ isAnalyzingTopics' = FALSE
    /\ IF r.ok
       THEN /\ availableTopics' = r.topics
            /\ selectedTopics' = r.topics
            /\ quizState' = "TOPIC_SELECTION"
            /\ srsDueCount' = StatsEffect(quizState, "TOPIC_SELECTION", storage, srsDueCount)
            /\ UNCHANGED error
       ELSE /\ error' = "Failed to analyze topics. You can try generating the full quiz without filtering."
            /\ UNCHANGED <<availableTopics, selectedTopics, quizState, srsDueCount>>
    /\ UNCHANGED <<materialText, config, quizSummary, questions, currentQuestionIndex,
                   userAnswers, rankingOrder, storage, now, pendingGen, isProcessingFile, attempt>>

(***************************************************************************)
(* generateQuiz.                                                           *)
(***************************************************************************)
\* variant: the Generate Quiz button is also offered while GENERATING
CanGenerateWhileGenerating ==
    \/ quizState \in {"SETUP", "GENERATING"} /\ ~config.enableTopicFilter /\ MainButtonEnabled
    \/ quizState = "TOPIC_SELECTION" /\ Len(selectedTopics) # 0

\* where the view offers the Generate Quiz button
CanGenerate ==
    \/ quizState = "SETUP" /\ ~config.enableTopicFilter /\ MainButtonEnabled
    \/ quizState = "TOPIC_SELECTION" /\ Len(selectedTopics) # 0

\* the state generateQuiz sets before the provider call
EntryState == "GENERATING"

\* setQuizSummary([]) at entry
EntrySummary(prev) == <<>>

\* generateQuiz up to its await
GenerateQuiz ==
    /\ CanGenerate
    /\ IF ~HasContent
       THEN /\ error' = "Please provide content (Materials or Transcripts) to generate questions."
            /\ UNCHANGED <<quizState, quizSummary, pendingGen, srsDueCount, attempt>>
       ELSE /\ quizState' = EntryState
            /\ error' = ""
            /\ quizSummary' = EntrySummary(quizSummary)
            /\ pendingGen' = pendingGen + 1
            /\ attempt' = 0
            /\ srsDueCount' = StatsEffect(quizState, EntryState, storage, srsDueCount)
    /\ UNCHANGED <<materialText, config, availableTopics, selectedTopics,
                   isAnalyzingTopics, questions, currentQuestionIndex, userAnswers, rankingOrder, storage, now, isProcessingFile>>

\* the provider call rejected or JSON.parse threw
RequestFailed(r) == r.kind \in {"reject", "badjson"}

\* err.message || "Failed to generate quiz. Please try again."
ErrorMessage(msg) == IF msg # "" THEN msg ELSE "Failed to generate quiz. Please try again."

\* no questions array and not a summary mode: the structure is unexpected
UnexpectedStructure(r, enableSummary) == r.shape = "other" /\ ~enableSummary

\* parsedQuestions
ParsedQuestions(r) == IF r.shape = "other" THEN <<>> ELSE r.questions

\* generatedData.keyConcepts || []   (a bare array has no keyConcepts)
KeyConcepts(r) == IF r.shape = "array" THEN <<>> ELSE r.keyConcepts

\* parsedQuestions.length === 0
EmptyResult(parsed) == Len(parsed) = 0

\* the catch block of generateQuiz
GenerateCatch(msg) ==
    /\ error' = ErrorMessage(msg)
    /\ quizState' = "SETUP"
    /\ srsDueCount' = StatsEffect(quizState, "SETUP", storage, srsDueCount)
    /\ UNCHANGED <<questions, currentQuestionIndex, userAnswers, rankingOrder, attempt>>

\* generateQuiz after its await: the provider call ended with r
GenerateQuizResolve(r) ==
    /\ pendingGen > 0
    /\ pendingGen' = pendingGen - 1
    /\ IF RequestFailed(r)
       THEN GenerateCatch(r.message) /\ UNCHANGED quizSummary
       ELSE IF UnexpectedStructure(r, config.enableSummary)
       THEN GenerateCatch("Questions were not generated properly. The model response structure was unexpected.")
            /\ UNCHANGED quizSummary
       ELSE /\ quizSummary' = IF config.enableSummary THEN KeyConcepts(r) ELSE quizSummary
            /\ IF EmptyResult(ParsedQuestions(r))
               THEN GenerateCatch("No questions were generated. Please try again or check your content.")
               ELSE LET target == IF config.enableSummary /\ Len(KeyConcepts(r)) > 0
                                  THEN "KNOWLEDGE" ELSE "PLAYING"
                    IN  /\ questions' = formattedQuestions(ParsedQuestions(r))
                        /\ currentQuestionIndex' = 0
                        /\ userAnswers' = <<>>
                        /\ quizState' = target
                        /\ rankingOrder' = RankingEffect(questions', 0, rankingOrder)
                        /\ srsDueCount' = StatsEffect(quizState, target, storage, srsDueCount)
                        /\ UNCHANGED error
    /\ UNCHANGED <<materialText, config, availableTopics, selectedTopics,
                   isAnalyzingTopics, storage, now, isProcessingFile, attempt>>

(***************************************************************************)
(* TOPIC_SELECTION and KNOWLEDGE views.                                    *)
(***************************************************************************)
\* toggleTopicSelection, Select All and Clear: the selection becomes sel
SetSelectedTopics(sel) ==
    /\ quizState = "TOPIC_SELECTION"
    /\ sel # selectedTopics
    /\ selectedTopics' = sel
    /\ UNCHANGED <<quizState, materialText, config, availableTopics,
                   isAnalyzingTopics, quizSummary, questions, currentQuestionIndex,
                   userAnswers, error, rankingOrder, srsDueCount,
                   storage, now, pendingGen, isProcessingFile, attempt>>

\* Back button of TOPIC_SELECTION
TopicBack ==
    /\ quizState = "TOPIC_SELECTION"
    /\ quizState' = "SETUP"
    /\ srsDueCount' = StatsEffect(quizState, "SETUP", storage, srsDueCount)
    /\ UNCHANGED <<materialText, config, availableTopics, selectedTopics,
                   isAnalyzingTopics, quizSummary, questions, currentQuestionIndex,
                   userAnswers, error, rankingOrder, storage, now,
                   pendingGen, isProcessingFile, attempt>>

\* Start Quiz button of KNOWLEDGE
StartQuiz ==
    /\ quizState = "KNOWLEDGE"
    /\ quizState' = "PLAYING"
    /\ srsDueCount' = StatsEffect(quizState, "PLAYING", storage, srsDueCount)
    /\ UNCHANGED <<materialText, config, availableTopics, selectedTopics,
                   isAnalyzingTopics, quizSummary, questions, currentQuestionIndex,
                   userAnswers, error, rankingOrder, storage, now,
                   pendingGen, isProcessingFile, attempt>>

(***************************************************************************)
(* startReviewSession.                                                     *)
(***************************************************************************)
\* variant: the snapshots keep the ids they were stored with
ReviewQuestionsStoredIds(data, vals) ==
    [i \in 1..Len(vals) |-> data[vals[i]].question]

\* item.question with id: index, for the due items in the order vals
ReviewQuestions(data, vals) ==
    [i \in 1..Len(vals) |-> [data[vals[i]].question EXCEPT !.id = i - 1]]

\* the list after the shuffle that moves position shuf[i] to position i
Shuffled(list, shuf) == [i \in 1..Len(list) |-> list[shuf[i]]]

\* variant: startReviewSession without setUserAnswers([])
ReviewAnswersKept(prev) == prev

\* setUserAnswers([]) of startReviewSession
ReviewAnswers(prev) == <<>>

\* variant: the check dueItems.length === 0 is left out
NothingToReviewUnchecked == storage.kind # "json"

\* the early returns of startReviewSession: no item (if (!raw) return), an
\* item JSON.parse rejects (caught), or no due item
NothingToReview == storage.kind # "json" \/ DueKeys(storage.data, now) = {}

StartReviewSession ==
    /\ quizState = "SETUP"
    /\ srsDueCount > 0
    /\ IF NothingToReview
       THEN UNCHANGED <<quizState, questions, quizSummary, currentQuestionIndex,
                        userAnswers, rankingOrder, srsDueCount>>
       ELSE \E vals \in Orderings(DueKeys(storage.data, now)) :
            \E shuf \in Orderings(1..Len(vals)) :
               /\ questions' = Shuffled(ReviewQuestions(storage.data, vals), shuf)
               /\ quizSummary' = <<>>
               /\ currentQuestionIndex' = 0
               /\ userAnswers' = ReviewAnswers(userAnswers)
               /\ quizState' = "PLAYING"
               /\ rankingOrder' = RankingEffect(questions', 0, rankingOrder)
               /\ srsDueCount' = StatsEffect(quizState, "PLAYING", storage, srsDueCount)
    /\ UNCHANGED <<materialText, config, availableTopics, selectedTopics,
                   isAnalyzingTopics, error, storage, now, pendingGen, isProcessingFile, attempt>>

(***************************************************************************)
(* PLAYING view.                                                           *)
(***************************************************************************)
\* the PLAYING view reads questions[currentQuestionIndex]
HasCurrentQuestion == currentQuestionIndex < Len(questions)

CurrentQuestion == questions[currentQuestionIndex + 1]

\* variant: a question counts as answered only once it was answered correctly
IsAnsweredWhenCorrect(answers, question) ==
    \E i \in 1..Len(answers) : answers[i].questionId = question.id /\ answers[i].isCorrect

\* userAnswers.some(ua => ua.questionId === question.id)
IsAnswered(answers, question) == \E i \in 1..Len(answers) : answers[i].questionId = question.id

\* the answers the view can submit for a question
AnswerChoices(question, order) ==
    IF question.type = "TRUE_FALSE" THEN {Bool(TRUE), Bool(FALSE)}
    ELSE IF question.type = "MULTIPLE_CHOICE" THEN {Str(o) : o \in Range(question.options)}
    ELSE {Arr(order)}

\* variant: setUserAnswers(prev => [newAnswer, ...prev])
PrependAnswer(prev, newAnswer) == <<newAnswer>> \o prev

\* setUserAnswers(prev => [...prev, newAnswer])
AppendAnswer(prev, newAnswer) == Append(prev, newAnswer)

\* handleAnswer(answer) for the current question; updateSRSStats runs only
\* after handleSRSUpdate wrote the item
handleAnswer(answer) ==
    LET question == CurrentQuestion
        isCorrect == Grade(question, answer)
        wrote == storage.kind # "corrupt"
                 /\ ~SkipUpdate(generateHash(question.text) \in DOMAIN storage.data, isCorrect)
    IN  /\ storage' = handleSRSUpdate(storage, question, isCorrect, now)
        /\ srsDueCount' = IF wrote THEN DueCount(storage', now, srsDueCount) ELSE srsDueCount
        /\ userAnswers' = AppendAnswer(userAnswers,
                              [questionId |-> question.id, answer |-> answer,
                               isCorrect |-> isCorrect])

\* a click on an answer button or on Confirm Order
HandleAnswer ==
    /\ quizState = "PLAYING"
    /\ HasCurrentQuestion
    /\ ~IsAnswered(userAnswers, CurrentQuestion)
    /\ \E answer \in AnswerChoices(CurrentQuestion, rankingOrder) :
          /\ Grade(CurrentQuestion, answer)
                => CurrentRepetition(storage.data, generateHash(CurrentQuestion.text)) < MaxRepetition
          /\ handleAnswer(answer)
    /\ UNCHANGED <<quizState, materialText, config, availableTopics, selectedTopics,
                   isAnalyzingTopics, quizSummary, questions, currentQuestionIndex,
                   error, rankingOrder, now, pendingGen, isProcessingFile, attempt>>

\* variant: currentQuestionIndex < questions.length
MoreQuestionsOffByOne(idx, n) == idx < n

\* currentQuestionIndex < questions.length - 1
MoreQuestions(idx, n) == idx < n - 1

\* Next Question / Finish Quiz button
NextQuestion ==
    /\ quizState = "PLAYING"
    /\ HasCurrentQuestion
    /\ IsAnswered(userAnswers, CurrentQuestion)
    /\ IF MoreQuestions(currentQuestionIndex, Len(questions))
       THEN /\ currentQuestionIndex' = currentQuestionIndex + 1
            /\ rankingOrder' = RankingEffect(questions, currentQuestionIndex', rankingOrder)
            /\ UNCHANGED <<quizState, srsDueCount>>
       ELSE /\ quizState' = "SUMMARY"
            /\ srsDueCount' = StatsEffect(quizState, "SUMMARY", storage, srsDueCount)
            /\ UNCHANGED <<currentQuestionIndex, rankingOrder>>
    /\ UNCHANGED <<materialText, config, availableTopics, selectedTopics,
                   isAnalyzingTopics, quizSummary, questions, userAnswers, error, storage, now, pendingGen, isProcessingFile, attempt>>

\* the order after swapping positions i and j (1-based)
Swap(order, i, j) ==
    [k \in 1..Len(order) |-> IF k = i THEN order[j] ELSE IF k = j THEN order[i] ELSE order[k]]

\* moveRankItem(index, direction), index 0-based
moveRankItem(order, index, direction) ==
    IF direction = "up" /\ index = 0 THEN order
    ELSE IF direction = "down" /\ index = Len(order) - 1 THEN order
    ELSE Swap(order, index + 1, IF direction = "up" THEN index ELSE index + 2)

\* the arrow buttons of the ranking list
MoveRankItem(index, direction) ==
    /\ quizState = "PLAYING"
    /\ HasCurrentQuestion
    /\ CurrentQuestion.type \notin {"TRUE_FALSE", "MULTIPLE_CHOICE"}
    /\ ~IsAnswered(userAnswers, CurrentQuestion)
    /\ index \in 0..(Len(rankingOrder) - 1)
    /\ rankingOrder' = moveRankItem(rankingOrder, index, direction)
    /\ rankingOrder' # rankingOrder
    /\ UNCHANGED <<quizState, materialText, config, availableTopics, selectedTopics,
                   isAnalyzingTopics, quizSummary, questions, currentQuestionIndex,
                   userAnswers, error, srsDueCount, storage, now,
                   pendingGen, isProcessingFile, attempt>>

\* variant: the dragged item is inserted without being taken out first
handleDragOverCopy(order, dragged, index) ==
    SubSeq(order, 1, index) \o <<order[dragged + 1]>> \o SubSeq(order, index + 1, Len(order))

\* handleDragOver: the order after the item at dragged (0-based) is spliced
\* out and spliced in again at index
handleDragOver(order, dragged, index) ==
    LET without == SubSeq(order, 1, dragged) \o SubSeq(order, dragged + 2, Len(order))
    IN  SubSeq(without, 1, index) \o <<order[dragged + 1]>>
           \o SubSeq(without, index + 1, Len(without))

\* a drag of the item at dragged (set by handleDragStart or by the previous
\* handleDragOver of the gesture) over the item at index
HandleDragOver(dragged, index) ==
    /\ quizState = "PLAYING"
    /\ HasCurrentQuestion
    /\ CurrentQuestion.type \notin {"TRUE_FALSE", "MULTIPLE_CHOICE"}
    /\ ~IsAnswered(userAnswers, CurrentQuestion)
    /\ dragged \in 0..(Len(rankingOrder) - 1)
    /\ index \in 0..(Len(rankingOrder) - 1)
    /\ dragged # index
    /\ rankingOrder' = handleDragOver(rankingOrder, dragged, index)
    /\ UNCHANGED <<quizState, materialText, config, availableTopics, selectedTopics,
                   isAnalyzingTopics, quizSummary, questions, currentQuestionIndex,
                   userAnswers, error, srsDueCount, storage, now,
                   pendingGen, isProcessingFile, attempt>>

(***************************************************************************)
(* SUMMARY and REVIEW views.                                               *)
(***************************************************************************)
\* userAnswers.filter(a => a.isCorrect).length
Score(answers) == Cardinality({i \in 1..Len(answers) : answers[i].isCorrect})

\* Array.prototype.join(sep)
RECURSIVE JoinWith(_, _)
JoinWith(xs, sep) ==
    IF xs = <<>> THEN <<>>
    ELSE IF Len(xs) = 1 THEN xs[1]
    ELSE xs[1] \o sep \o JoinWith(Tail(xs), sep)

\* variant: every answer is exported
WrongAnswersAll(answers) == answers

\* userAnswers.filter(ua => !ua.isCorrect)
WrongAnswers(answers) == SelectSeq(answers, LAMBDA ua : ~ua.isCorrect)

\* the section written for the wrong answer ua, the index-th of wrongAnswers
\* (0-based); <<>> when no question has its id
MistakeEntry(qs, ua, index) ==
    LET found == {i \in 1..Len(qs) : qs[i].id = ua.questionId}
        formatAns(val) == IF IsArray(val) THEN JoinWith(val.a, <<32, 8594, 32>>) ELSE ToStr(val)
    IN  IF found = {} THEN <<>>
        ELSE LET q == qs[CHOOSE i \in found : \A j \in found : i <= j]
             IN  << [number |-> index + 1,
                     type |-> CASE q.type = "TRUE_FALSE" -> "TRUE FALSE"
                                [] q.type = "MULTIPLE_CHOICE" -> "MULTIPLE CHOICE"
                                [] OTHER -> q.type,
                     question |-> q.text,
                     yourAnswer |-> formatAns(ua.answer),
                     correctAnswer |-> formatAns(q.correctAnswer),
                     explanation |-> q.explanation] >>

\* what handleExportMistakes hands to the user: the alert, or the document
\* as the sequence of its sections
handleExportMistakes(qs, answers) ==
    LET wrongAnswers == WrongAnswers(answers)
        sections[n \in 0..Len(wrongAnswers)] ==
            IF n = 0 THEN <<>>
            ELSE sections[n - 1] \o MistakeEntry(qs, wrongAnswers[n], n - 1)
    IN  IF Len(wrongAnswers) = 0
        THEN [kind |-> "alert", entries |-> <<>>]
        ELSE [kind |-> "document", entries |-> sections[Len(wrongAnswers)]]

\* Export Wrong Questions button (shown when score < questions.length)
ExportMistakes ==
    /\ quizState = "SUMMARY"
    /\ Score(userAnswers) < Len(questions)
    /\ handleExportMistakes(questions, userAnswers).kind \in {"alert", "document"}
    /\ UNCHANGED vars

\* Review Answers button
ViewReview ==
    /\ quizState = "SUMMARY"
    /\ quizState' = "REVIEW"
    /\ srsDueCount' = StatsEffect(quizState, "REVIEW", storage, srsDueCount)
    /\ UNCHANGED <<materialText, config, availableTopics, selectedTopics,
                   isAnalyzingTopics, quizSummary, questions, currentQuestionIndex,
                   userAnswers, error, rankingOrder, storage, now,
                   pendingGen, isProcessingFile, attempt>>

\* Back to Summary button
BackToSummary ==
    /\ quizState = "REVIEW"
    /\ quizState' = "SUMMARY"
    /\ srsDueCount' = StatsEffect(quizState, "SUMMARY", storage, srsDueCount)
    /\ UNCHANGED <<materialText, config, availableTopics, selectedTopics,
                   isAnalyzingTopics, quizSummary, questions, currentQuestionIndex,
                   userAnswers, error, rankingOrder, storage, now,
                   pendingGen, isProcessingFile, attempt>>

\* Create New Quiz button
resetQuiz ==
    /\ quizState = "SUMMARY"
    /\ srsDueCount' = DueCount(storage, now, srsDueCount)
    /\ quizState' = "SETUP"
    /\ materialText' = ""
    /\ questions' = <<>>
    /\ quizSummary' = <<>>
    /\ userAnswers' = <<>>
    /\ currentQuestionIndex' = 0
    /\ availableTopics' = <<>>
    /\ selectedTopics' = <<>>
    /\ UNCHANGED <<config, isAnalyzingTopics, error, rankingOrder,
                   storage, now, pendingGen, isProcessingFile, attempt>>

(***************************************************************************)
(* The clock.                                                              *)
(***************************************************************************)
AdvanceClock ==
    /\ now < MaxDays * DayMs
    /\ now' = now + DayMs
    /\ UNCHANGED <<quizState, materialText, config, availableTopics, selectedTopics,
                   isAnalyzingTopics, quizSummary, questions, currentQuestionIndex,
                   userAnswers, error, rankingOrder, srsDueCount,
                   storage, pendingGen, isProcessingFile, attempt>>

Next ==
    \/ SetMaterialText
    \/ ToggleSummary
    \/ ToggleTopicFilter
    \/ HandleUpload
    \/ \E ok \in BOOLEAN : HandleUploadDone(ok)
    \/ ExtractTopics
    \/ \E r \in ScanResponses : ExtractTopicsResolve(r)
    \/ GenerateQuiz
    \/ \E r \in Responses : GenerateQuizResolve(r)
    \/ \E sel \in {<<>>} \cup {availableTopics} : SetSelectedTopics(sel)
    \/ TopicBack
    \/ StartQuiz
    \/ StartReviewSession
    \/ HandleAnswer
    \/ NextQuestion
    \/ \E index \in 0..(Len(rankingOrder) - 1), direction \in {"up", "down"} :
          MoveRankItem(index, direction)
    \/ \E dragged, index \in 0..(Len(rankingOrder) - 1) : HandleDragOver(dragged, index)
    \/ ViewReview
    \/ ExportMistakes
    \/ BackToSummary
    \/ resetQuiz
    \/ AdvanceClock

Spec == Init /\ [][Next]_vars

(***************************************************************************)
(* A returning visit: the storage item written by earlier visits holds     *)
(* two due records, and the mount effect has counted them.  The clock      *)
(* stands still during the visit.                                          *)
(***************************************************************************)
\* a question of an earlier visit whose text has another contentId
rawSeen == [rawTF EXCEPT !.text = <<90>>]

\* the parsed storage item: both questions were answered incorrectly at time 0
ReturningData ==
    LET qs == formattedQuestions(<<rawTF, rawSeen>>)
        ids == { generateHash(qs[i].text) : i \in 1..Len(qs) }
    IN  [id \in ids |->
            LET q == CHOOSE i \in 1..Len(qs) : generateHash(qs[i].text) = id
            IN  FailureItem(id, qs[q], 0)]

InitReturning ==
    /\ quizState = "SETUP"
    /\ materialText = ""
    /\ config = [enableSummary |-> TRUE, enableTopicFilter |-> FALSE]
    /\ availableTopics = <<>>
    /\ selectedTopics = <<>>
    /\ isAnalyzingTopics = FALSE
    /\ quizSummary = <<>>
    /\ questions = <<>>
    /\ currentQuestionIndex = 0
    /\ userAnswers = <<>>
    /\ error = ""
    /\ isProcessingFile = FALSE
    /\ rankingOrder = <<>>
    /\ storage = Stored(ReturningData)
    /\ srsDueCount = DueCount(storage, 0, 0)
    /\ now = 0
    /\ pendingGen = 0
    /\ attempt = 0

\* the provider's answers during the visit
ReturningResponses ==
    { Response("reject", "other", <<>>, <<>>, "quota exceeded") }
    \cup { Response("ok", "object", <<rawRank>>, kc, "") : kc \in KeyConceptLists }

NextReturning ==
    \/ SetMaterialText
    \/ ToggleSummary
    \/ ToggleTopicFilter
    \/ HandleUpload
    \/ \E ok \in BOOLEAN : HandleUploadDone(ok)
    \/ ExtractTopics
    \/ \E r \in ScanResponses : ExtractTopicsResolve(r)
    \/ GenerateQuiz
    \/ \E r \in ReturningResponses : GenerateQuizResolve(r)
    \/ \E sel \in {<<>>} \cup {availableTopics} : SetSelectedTopics(sel)
    \/ TopicBack
    \/ StartQuiz
    \/ StartReviewSession
    \/ HandleAnswer
    \/ NextQuestion
    \/ \E index \in 0..(Len(rankingOrder) - 1), direction \in {"up", "down"} :
          MoveRankItem(index, direction)
    \/ \E dragged, index \in 0..(Len(rankingOrder) - 1) : HandleDragOver(dragged, index)
    \/ ViewReview
    \/ ExportMistakes
    \/ BackToSummary
    \/ resetQuiz

SpecReturning == InitReturning /\ [][NextReturning]_vars

(***************************************************************************)
(* src/index.tsx: the build without spaced repetition.  Its generateQuiz   *)
(* parses the response in its own way and installs the batch without       *)
(* looking at its length; its handleAnswer does not touch the storage      *)
(* item.  The other handlers read the same in both files.                  *)
(***************************************************************************)
\* neither generatedData.questions nor generatedData is an array
UnexpectedStructureIndex(r) == r.shape = "other"

\* generateQuiz of src/index.tsx after its await
GenerateQuizResolveIndex(r) ==
    /\ pendingGen > 0
    /\ pendingGen' = pendingGen - 1
    /\ IF RequestFailed(r)
       THEN GenerateCatch(r.message) /\ UNCHANGED quizSummary
       ELSE IF UnexpectedStructureIndex(r)
       THEN GenerateCatch("Questions were not generated properly.")
            /\ UNCHANGED quizSummary
       ELSE LET target == IF config.enableSummary /\ Len(KeyConcepts(r)) > 0
                          THEN "KNOWLEDGE" ELSE "PLAYING"
            IN  /\ quizSummary' = IF config.enableSummary /\ r.shape = "object"
                                  THEN KeyConcepts(r) ELSE quizSummary
                /\ questions' = formattedQuestions(r.questions)
                /\ currentQuestionIndex' = 0
                /\ userAnswers' = <<>>
                /\ quizState' = target
                /\ rankingOrder' = RankingEffect(questions', 0, rankingOrder)
                /\ UNCHANGED <<error, srsDueCount>>
    /\ UNCHANGED <<materialText, config, availableTopics, selectedTopics,
                   isAnalyzingTopics, storage, now, isProcessingFile, attempt>>

\* handleAnswer of src/index.tsx: grade and append
HandleAnswerIndex ==
    /\ quizState = "PLAYING"
    /\ HasCurrentQuestion
    /\ ~IsAnswered(userAnswers, CurrentQuestion)
    /\ \E answer \in AnswerChoices(CurrentQuestion, rankingOrder) :
          userAnswers' = AppendAnswer(userAnswers,
                             [questionId |-> CurrentQuestion.id, answer |-> answer,
                              isCorrect |-> Grade(CurrentQuestion, answer)])
    /\ UNCHANGED <<quizState, materialText, config, availableTopics, selectedTopics,
                   isAnalyzingTopics, quizSummary, questions, currentQuestionIndex,
                   error, rankingOrder, now, pendingGen, isProcessingFile,
                   storage, srsDueCount, attempt>>

NextIndex ==
    \/ SetMaterialText
    \/ ToggleSummary
    \/ ToggleTopicFilter
    \/ HandleUpload
    \/ \E ok \in BOOLEAN : HandleUploadDone(ok)
    \/ ExtractTopics
    \/ \E r \in ScanResponses : ExtractTopicsResolve(r)
    \/ GenerateQuiz
    \/ \E r \in Responses : GenerateQuizResolveIndex(r)
    \/ \E sel \in {<<>>} \cup {availableTopics} : SetSelectedTopics(sel)
    \/ TopicBack
    \/ StartQuiz
    \/ HandleAnswerIndex
    \/ NextQuestion
    \/ \E index \in 0..(Len(rankingOrder) - 1), direction \in {"up", "down"} :
          MoveRankItem(index, direction)
    \/ \E dragged, index \in 0..(Len(rankingOrder) - 1) : HandleDragOver(dragged, index)
    \/ ViewReview
    \/ ExportMistakes
    \/ BackToSummary
    \/ resetQuiz

SpecIndex == Init /\ [][NextIndex]_vars

(***************************************************************************)
(* src/unnamed/part_000: the compact build.  It has the views SETUP,       *)
(* GENERATING, KNOWLEDGE, PLAYING and SUMMARY, its own normalizer, grader  *)
(* and interval rule, and a New Quiz button that only sets the state.      *)
(***************************************************************************)
\* const nextInterval = currentInterval === 0 ? 1 : currentInterval * 2
NextIntervalCompact(currentInterval) ==
    IF currentInterval = 0 THEN 1 ELSE currentInterval * 2

SuccessItemCompact(id, question, data, time) ==
    [id |-> id,
     question |-> question,
     interval |-> NextIntervalCompact(CurrentInterval(data, id)),
     repetition |-> CurrentRepetition(data, id) + 1,
     nextReview |-> time + NextIntervalCompact(CurrentInterval(data, id)) * DayMs]

\* handleSRSUpdate of part_000; its early return and its failure item read
\* as in part_001
handleSRSUpdateCompact(store, question, isCorrect, time) ==
    IF store.kind = "corrupt" THEN store
    ELSE LET data == store.data
             id == generateHash(question.text)
             hasExisting == id \in DOMAIN data
         IN  IF SkipUpdate(hasExisting, isCorrect) THEN store
             ELSE LET newItem == IF isCorrect
                                 THEN SuccessItemCompact(id, question, data, time)
                                 ELSE FailureItem(id, question, time)
                  IN  Stored([k \in DOMAIN data \cup {id} |->
                                 IF k = id THEN newItem ELSE data[k]])

\* updateSRSStats of part_000: the count is set only when the item exists
\* and parses
DueCountCompact(store, time, old) ==
    IF store.kind = "json" THEN Cardinality(DueKeys(store.data, time)) ELSE old

StatsEffectCompact(oldState, newState, store, count) ==
    IF newState # oldState THEN DueCountCompact(store, now, count) ELSE count

\* q.correctAnswerBoolean ?? (String(q.correctAnswerString).toLowerCase() === 'true')
TrueFalseAnswerCompact(q) ==
    IF q.correctAnswerBoolean # Undef /\ q.correctAnswerBoolean # Null
    THEN q.correctAnswerBoolean
    ELSE Bool(ToLowerCase(ToStr(q.correctAnswerString)) = s_true)

\* q.correctAnswerArray || q.options
RankingAnswerCompact(q) ==
    IF Truthy(q.correctAnswerArray) THEN q.correctAnswerArray ELSE q.options

\* q.correctAnswerString || q.options?.[0]
MultipleChoiceAnswerCompact(q) ==
    IF Truthy(q.correctAnswerString) THEN q.correctAnswerString
    ELSE IF q.options = Undef \/ q.options = Null THEN Undef
    ELSE IF IsArray(q.options) /\ Len(q.options.a) > 0 THEN Str(q.options.a[1])
    ELSE Undef

FormatQuestionCompact(q, index) ==
    [id |-> index,
     type |-> q.type,
     text |-> q.text,
     options |-> IF Truthy(q.options) THEN q.options.a ELSE <<>>,
     correctAnswer |-> IF q.type = "TRUE_FALSE" THEN TrueFalseAnswerCompact(q)
                       ELSE IF q.type = "RANKING" THEN RankingAnswerCompact(q)
                       ELSE MultipleChoiceAnswerCompact(q),
     explanation |-> q.explanation]

formattedQuestionsCompact(parsedQuestions) ==
    [i \in 1..Len(parsedQuestions) |-> FormatQuestionCompact(parsedQuestions[i], i - 1)]

\* handleAnswer of part_000: grading
GradeCompact(question, answer) ==
    IF question.type = "RANKING"
    THEN isRankingCorrect(question.correctAnswer, answer)
    ELSE ToLowerCase(ToStr(answer)) = ToLowerCase(ToStr(question.correctAnswer))

\* handleMaterialUpload of part_000 up to the first await
HandleUploadCompact ==
    /\ quizState = "SETUP"
    /\ ~isProcessingFile
    /\ isProcessingFile' = TRUE
    /\ UNCHANGED <<quizState, materialText, config, availableTopics, selectedTopics,
                   isAnalyzingTopics, quizSummary, questions, currentQuestionIndex,
                   userAnswers, error, rankingOrder, srsDueCount, storage, now,
                   pendingGen, attempt>>

\* the upload handler after the files were read (ok) or reading threw
HandleUploadDoneCompact(ok) ==
    /\ isProcessingFile
    /\ isProcessingFile' = FALSE
    /\ materialText' = IF ok THEN "lecture notes" ELSE materialText
    /\ UNCHANGED <<quizState, config, availableTopics, selectedTopics,
                   isAnalyzingTopics, quizSummary, questions, currentQuestionIndex,
                   userAnswers, error, rankingOrder, srsDueCount, storage, now,
                   pendingGen, attempt>>

\* generateQuiz of part_000 up to its await
GenerateQuizCompact ==
    /\ quizState = "SETUP"
    /\ ~isProcessingFile
    /\ IF ~HasContent
       THEN /\ error' = "Please provide content to generate questions."
            /\ UNCHANGED <<quizState, quizSummary, pendingGen, srsDueCount>>
       ELSE /\ quizState' = "GENERATING"
            /\ error' = ""
            /\ quizSummary' = <<>>
            /\ pendingGen' = pendingGen + 1
            /\ srsDueCount' = StatsEffectCompact(quizState, "GENERATING", storage, srsDueCount)
    /\ UNCHANGED <<materialText, config, availableTopics, selectedTopics,
                   isAnalyzingTopics, questions, currentQuestionIndex, userAnswers,
                   rankingOrder, storage, now, isProcessingFile, attempt>>

\* data.questions || []
ParsedQuestionsCompact(r) == IF r.shape = "object" THEN r.questions ELSE <<>>

\* data.keyConcepts || []
KeyConceptsCompact(r) == IF r.shape = "array" THEN <<>> ELSE r.keyConcepts

\* generateQuiz of part_000 after its await
GenerateQuizResolveCompact(r) ==
    /\ pendingGen > 0
    /\ pendingGen' = pendingGen - 1
    /\ IF RequestFailed(r)
       THEN /\ error' = IF r.message # "" THEN r.message ELSE "Failed to generate quiz."
            /\ quizState' = "SETUP"
            /\ srsDueCount' = StatsEffectCompact(quizState, "SETUP", storage, srsDueCount)
            /\ UNCHANGED <<quizSummary, questions, currentQuestionIndex, userAnswers,
                           rankingOrder>>
       ELSE LET target == IF config.enableSummary /\ Len(KeyConceptsCompact(r)) > 0
                          THEN "KNOWLEDGE" ELSE "PLAYING"
            IN  /\ quizSummary' = IF config.enableSummary THEN KeyConceptsCompact(r)
                                  ELSE quizSummary
                /\ questions' = formattedQuestionsCompact(ParsedQuestionsCompact(r))
                /\ currentQuestionIndex' = 0
                /\ userAnswers' = <<>>
                /\ quizState' = target
                /\ rankingOrder' = RankingEffect(questions', 0, rankingOrder)
                /\ srsDueCount' = StatsEffectCompact(quizState, target, storage, srsDueCount)
                /\ UNCHANGED error
    /\ UNCHANGED <<materialText, config, availableTopics, selectedTopics,
                   isAnalyzingTopics, storage, now, isProcessingFile, attempt>>

\* Start Quiz button of KNOWLEDGE
StartQuizCompact ==
    /\ quizState = "KNOWLEDGE"
    /\ quizState' = "PLAYING"
    /\ srsDueCount' = StatsEffectCompact(quizState, "PLAYING", storage, srsDueCount)
    /\ UNCHANGED <<materialText, config, availableTopics, selectedTopics,
                   isAnalyzingTopics, quizSummary, questions, currentQuestionIndex,
                   userAnswers, error, rankingOrder, storage, now,
                   pendingGen, isProcessingFile, attempt>>

\* the answer buttons of part_000: true and false, or one button per option
AnswerChoicesCompact(question) ==
    IF question.type = "TRUE_FALSE" THEN {Bool(TRUE), Bool(FALSE)}
    ELSE {Str(o) : o \in Range(question.options)}

\* a click on an answer button of part_000
HandleAnswerCompact ==
    /\ quizState = "PLAYING"
    /\ HasCurrentQuestion
    /\ ~IsAnswered(userAnswers, CurrentQuestion)
    /\ \E answer \in AnswerChoicesCompact(CurrentQuestion) :
          LET question == CurrentQuestion
              isCorrect == GradeCompact(question, answer)
              wrote == storage.kind # "corrupt"
                       /\ ~SkipUpdate(generateHash(question.text) \in DOMAIN storage.data,
                                      isCorrect)
          IN  /\ isCorrect =>
                    CurrentRepetition(storage.data, generateHash(question.text))
                        < MaxRepetition
              /\ storage' = handleSRSUpdateCompact(storage, question, isCorrect, now)
              /\ srsDueCount' = IF wrote THEN DueCountCompact(storage', now, srsDueCount)
                                ELSE srsDueCount
              /\ userAnswers' = Append(userAnswers,
                                    [questionId |-> question.id, answer |-> answer,
                                     isCorrect |-> isCorrect])
    /\ UNCHANGED <<quizState, materialText, config, availableTopics, selectedTopics,
                   isAnalyzingTopics, quizSummary, questions, currentQuestionIndex,
                   error, rankingOrder, now, pendingGen, isProcessingFile, attempt>>

\* nextQuestion of part_000
NextQuestionCompact ==
    /\ quizState = "PLAYING"
    /\ HasCurrentQuestion
    /\ IsAnswered(userAnswers, CurrentQuestion)
    /\ IF currentQuestionIndex < Len(questions) - 1
       THEN /\ currentQuestionIndex' = currentQuestionIndex + 1
            /\ rankingOrder' = RankingEffect(questions, currentQuestionIndex', rankingOrder)
            /\ UNCHANGED <<quizState, srsDueCount>>
       ELSE /\ quizState' = "SUMMARY"
            /\ srsDueCount' = StatsEffectCompact(quizState, "SUMMARY", storage, srsDueCount)
            /\ UNCHANGED <<currentQuestionIndex, rankingOrder>>
    /\ UNCHANGED <<materialText, config, availableTopics, selectedTopics,
                   isAnalyzingTopics, quizSummary, questions, userAnswers, error,
                   storage, now, pendingGen, isProcessingFile, attempt>>

\* New Quiz button of SUMMARY: setQuizState('SETUP')
NewQuizCompact ==
    /\ quizState = "SUMMARY"
    /\ quizState' = "SETUP"
    /\ srsDueCount' = StatsEffectCompact(quizState, "SETUP", storage, srsDueCount)
    /\ UNCHANGED <<materialText, config, availableTopics, selectedTopics,
                   isAnalyzingTopics, quizSummary, questions, currentQuestionIndex,
                   userAnswers, error, rankingOrder, storage, now,
                   pendingGen, isProcessingFile, attempt>>

NextCompact ==
    \/ SetMaterialText
    \/ ToggleSummary
    \/ HandleUploadCompact
    \/ \E ok \in BOOLEAN : HandleUploadDoneCompact(ok)
    \/ GenerateQuizCompact
    \/ \E r \in Responses : GenerateQuizResolveCompact(r)
    \/ StartQuizCompact
    \/ HandleAnswerCompact
    \/ NextQuestionCompact
    \/ NewQuizCompact
    \/ AdvanceClock

SpecCompact == Init /\ [][NextCompact]_vars

(***************************************************************************)
(* localStorage is shared by every page of the origin: the item under      *)
(* SRS_STORAGE_KEY can be removed or overwritten while this page is open    *)
(* (another tab, cleared site data).  The page reads it again on every      *)
(* getItem.                                                                *)
(***************************************************************************)
ForeignItems == {Absent, Corrupt, Stored(EmptyMap)}

StorageChangedElsewhere ==
    /\ \E item \in ForeignItems :
          /\ item # storage
          /\ storage' = item
    /\ UNCHANGED <<quizState, materialText, config, availableTopics, selectedTopics,
                   isAnalyzingTopics, quizSummary, questions, currentQuestionIndex,
                   userAnswers, error, rankingOrder, srsDueCount, now, pendingGen,
                   isProcessingFile, attempt>>

NextShared ==
    \/ SetMaterialText
    \/ ToggleSummary
    \/ GenerateQuiz
    \/ \E r \in Responses : GenerateQuizResolve(r)
    \/ StartQuiz
    \/ StartReviewSession
    \/ HandleAnswer
    \/ NextQuestion
    \/ \E index \in 0..(Len(rankingOrder) - 1), direction \in {"up", "down"} :
          MoveRankItem(index, direction)
    \/ \E dragged, index \in 0..(Len(rankingOrder) - 1) : HandleDragOver(dragged, index)
    \/ resetQuiz
    \/ AdvanceClock
    \/ StorageChangedElsewhere

SpecShared == Init /\ [][NextShared]_vars

(***************************************************************************)
(* One visit on an empty store with true/false questions of distinct       *)
(* prompts "A", "B", "C".  The user starts no second session.              *)
(***************************************************************************)
rawA ==
    [RawBase EXCEPT !.type = "TRUE_FALSE", !.text = <<65>>,
                    !.correctAnswerBoolean = Bool(TRUE)]

rawB ==
    [RawBase EXCEPT !.type = "True/False", !.text = <<66>>,
                    !.correctAnswerBoolean = Bool(FALSE)]

rawC ==
    [RawBase EXCEPT !.text = <<67>>, !.correctAnswer = Str(<<84, 114, 117, 101>>)]

BooleanBatches == { <<rawA, rawB, rawC>>, <<rawB, rawA>> }

BooleanResponses ==
    { Response("ok", "object", qs, kc, "") : qs \in BooleanBatches, kc \in KeyConceptLists }

NextBoolean ==
    \/ SetMaterialText
    \/ ToggleSummary
    \/ GenerateQuiz
    \/ \E r \in BooleanResponses : GenerateQuizResolve(r)
    \/ StartQuiz
    \/ HandleAnswer
    \/ NextQuestion
    \/ ViewReview
    \/ BackToSummary
    \/ AdvanceClock

SpecBoolean == Init /\ [][NextBoolean]_vars

(***************************************************************************)
(* The normalizer on raw records of every shape the provider can send:     *)
(* recognised, variant, missing and unrecognised type tags, answers in     *)
(* the specific field, in a generic field, or missing.  The prompts are    *)
(* "Aa" or missing.                                                        *)
(***************************************************************************)
\* type tag "ESSAY", answer "x"
rawEssay ==
    [RawBase EXCEPT !.type = "ESSAY", !.text = <<65, 97>>,
                    !.correctAnswerString = Str(<<120>>)]

\* a record with no field at all
rawBare == RawBase

\* "True False" question without an answer field
rawTFNoAnswer == [RawBase EXCEPT !.type = "True False", !.text = <<65, 97>>]

\* RANKING question whose answer is missing: the options stand in
rawRankNoAnswer ==
    [RawBase EXCEPT !.type = "RANKING", !.text = <<65, 97>>,
                    !.options = Arr(<< <<113>>, <<112>> >>)]

\* "Multiple Choice" question with the answer in the generic field
rawMCGeneric ==
    [RawBase EXCEPT !.type = "Multiple Choice", !.text = <<65, 97>>,
                    !.options = Arr(<< <<120>>, <<89>> >>),
                    !.answer = Str(<<89>>)]

\* a record without a type tag, answer "TRUE" in the generic field
rawUntyped ==
    [RawBase EXCEPT !.text = <<65, 97>>, !.correctAnswer = Str(<<84, 82, 85, 69>>)]

\* the last record has no type tag and only the array field: order "q", "p"
RawRecords ==
    {rawTF, rawMC, rawRank, rawUntyped, rawEssay, rawBare, rawTFNoAnswer, rawRankNoAnswer,
     rawMCGeneric,
     [RawBase EXCEPT !.text = <<65, 97>>, !.options = Arr(<< <<112>>, <<113>> >>),
                     !.correctAnswerArray = Arr(<< <<113>>, <<112>> >>)]}

NormalizerBatches ==
    { <<a>> : a \in RawRecords } \cup { <<a, b>> : a \in {rawTF, rawEssay}, b \in RawRecords }

NormalizerResponses ==
    { Response("ok", "array", qs, <<>>, "") : qs \in NormalizerBatches }

NextNormalizer ==
    \/ SetMaterialText
    \/ GenerateQuiz
    \/ \E r \in NormalizerResponses : GenerateQuizResolve(r)
    \/ HandleAnswer
    \/ NextQuestion
    \/ \E index \in 0..(Len(rankingOrder) - 1), direction \in {"up", "down"} :
          MoveRankItem(index, direction)
    \/ \E dragged, index \in 0..(Len(rankingOrder) - 1) : HandleDragOver(dragged, index)
    \/ resetQuiz

SpecNormalizer == Init /\ [][NextNormalizer]_vars

(***************************************************************************)
(* Ranking questions of every shape: items that differ in case and         *)
(* whitespace, a correct order that reads the same backwards, and an       *)
(* option list longer than the correct order.                              *)
(***************************************************************************)
\* RANKING question "Aa" with the given correct order and items
RankingRecord(correct, options) ==
    [RawBase EXCEPT !.type = "RANKING", !.text = <<65, 97>>,
                    !.options = Arr(options), !.correctAnswerArray = Arr(correct)]

\* <<correct order, items shown>>:
\*   "P", "q "       / "q", "p"
\*   "A", "a"        / "a", "A"
\*   "a", "b", "a"   / "a", "a", "b"
\*   "a  b", "c"     / "C", " A<tab>b "
\*   "a", "b"        / "a", "b", "c"
RankingCases ==
    { << << <<80>>, <<113, 32>> >>, << <<113>>, <<112>> >> >>,
      << << <<65>>, <<97>> >>, << <<97>>, <<65>> >> >>,
      << << <<97>>, <<98>>, <<97>> >>, << <<97>>, <<97>>, <<98>> >> >>,
      << << <<97, 32, 32, 98>>, <<99>> >>, << <<67>>, <<32, 65, 9, 98, 32>> >> >>,
      << << <<97>>, <<98>> >>, << <<97>>, <<98>>, <<99>> >> >> }

RankingResponses ==
    { Response("ok", "array", <<RankingRecord(c[1], c[2])>>, <<>>, "") : c \in RankingCases }

NextRanking ==
    \/ SetMaterialText
    \/ GenerateQuiz
    \/ \E r \in RankingResponses : GenerateQuizResolve(r)
    \/ \E index \in 0..(Len(rankingOrder) - 1), direction \in {"up", "down"} :
          MoveRankItem(index, direction)
    \/ \E dragged, index \in 0..(Len(rankingOrder) - 1) : HandleDragOver(dragged, index)
    \/ HandleAnswer
    \/ NextQuestion
    \/ resetQuiz

SpecRanking == Init /\ [][NextRanking]_vars

(***************************************************************************)
(* A returning visit spent on review sessions only.                        *)
(***************************************************************************)
NextReview ==
    \/ StartReviewSession
    \/ HandleAnswer
    \/ NextQuestion
    \/ ExportMistakes
    \/ ViewReview
    \/ BackToSummary
    \/ resetQuiz

SpecReview == InitReturning /\ [][NextReview]_vars

(***************************************************************************)
(* callGeminiWithRetry: the provider call of generateQuiz, attempt by      *)
(* attempt.                                                                *)
(***************************************************************************)
\* retries = 3
retries == 3

\* the errors an attempt rejects with: String(status) and the lower-cased
\* message ("" = none: the JSON of the error is searched instead); each
\* text equals one of the phrases searched for or holds none of them
ProviderErrors ==
    { [status |-> "503", message |-> "the model is overloaded"],
      [status |-> "undefined", message |-> "fetch failed"],
      [status |-> "429", message |-> "quota exceeded"],
      [status |-> "undefined", message |-> ""] }

\* isInternalError
isInternalError(statusStr, message) ==
    \/ statusStr \in {"500", "503"}
    \/ message \in {"internal server error", "rpc failed", "xhr error",
                    "network error", "fetch failed"}

\* variant: the last attempt is retried as well
ShouldRetryAlways(internal, i, n) == internal

\* isInternalError && i < retries - 1
ShouldRetry(internal, i, n) == internal /\ i < n - 1

\* an attempt rejected with e, the delay passed and the loop goes round
ProviderCallRetried(e) ==
    /\ pendingGen > 0
    /\ ShouldRetry(isInternalError(e.status, e.message), attempt, retries)
    /\ attempt' = attempt + 1
    /\ UNCHANGED <<quizState, materialText, config, availableTopics, selectedTopics,
                   isAnalyzingTopics, quizSummary, questions, currentQuestionIndex,
                   userAnswers, error, isProcessingFile, rankingOrder, srsDueCount,
                   storage, now, pendingGen>>

\* an attempt resolved with r: return await ai.models.generateContent(params)
ProviderCallReturned(r) ==
    /\ r.kind # "reject"
    /\ GenerateQuizResolve(r)

\* an attempt rejected with e and the loop throws it
ProviderCallThrown(e) ==
    /\ ~ShouldRetry(isInternalError(e.status, e.message), attempt, retries)
    /\ GenerateQuizResolve(Response("reject", "other", <<>>, <<>>, e.message))

NextRetry ==
    \/ SetMaterialText
    \/ ToggleSummary
    \/ ToggleTopicFilter
    \/ HandleUpload
    \/ \E ok \in BOOLEAN : HandleUploadDone(ok)
    \/ ExtractTopics
    \/ \E r \in ScanResponses : ExtractTopicsResolve(r)
    \/ GenerateQuiz
    \/ \E e \in ProviderErrors : ProviderCallRetried(e)
    \/ \E r \in Responses : ProviderCallReturned(r)
    \/ \E e \in ProviderErrors : ProviderCallThrown(e)
    \/ \E sel \in {<<>>} \cup {availableTopics} : SetSelectedTopics(sel)
    \/ TopicBack
    \/ StartQuiz
    \/ HandleAnswer
    \/ NextQuestion
    \/ resetQuiz

\* every provider call resolves or rejects and every delay timer fires: the
\* attempt in flight settles and the loop takes its next step
SpecRetry ==
    /\ Init
    /\ [][NextRetry]_vars
    /\ WF_vars(\/ \E e \in ProviderErrors : ProviderCallRetried(e)
               \/ \E r \in Responses : ProviderCallReturned(r)
               \/ \E e \in ProviderErrors : ProviderCallThrown(e))

(***************************************************************************)
(* Properties.                                                             *)
(***************************************************************************)
\* the current question has a record in userAnswers
CurrentHasRecord ==
    /\ quizState = "PLAYING"
    /\ HasCurrentQuestion
    /\ \E i \in 1..Len(userAnswers) : userAnswers[i].questionId = CurrentQuestion.id

\* a step in which handleAnswer appended a record
AnswerStep == quizState = "PLAYING" /\ Len(userAnswers') = Len(userAnswers) + 1

\* the verdict of the record appended by an AnswerStep
NewVerdict == userAnswers'[Len(userAnswers')].isCorrect

\* the contentId of the current question
CurrentId == generateHash(CurrentQuestion.text)

\* C1: userAnswers never holds two records with the same questionId, and
\* while the current question has a record no step changes userAnswers or
\* the SRS store (no second submission is accepted for it).
C1_AnsweredOnce ==
    /\ [](\A i, j \in 1..Len(userAnswers) :
             userAnswers[i].questionId = userAnswers[j].questionId => i = j)
    /\ [][CurrentHasRecord => userAnswers' = userAnswers /\ storage' = storage]_vars

\* C1 witness: the second question of a session is answered and still shown
C1_Witness == CurrentHasRecord /\ Len(userAnswers) = 2

\* C2: in SUMMARY and REVIEW there is exactly one record per question and
\* the i-th record refers to the i-th question; while PLAYING at index i
\* there are i or i+1 records, each referring to the question at its
\* position; and while the session lasts a step only ever appends one
\* record to userAnswers.
C2_RecordsInOrder ==
    /\ [](/\ quizState \in {"SUMMARY", "REVIEW"} => Len(userAnswers) = Len(questions)
          /\ quizState = "PLAYING" =>
                Len(userAnswers) \in {currentQuestionIndex, currentQuestionIndex + 1}
          /\ quizState \in {"PLAYING", "SUMMARY", "REVIEW"} =>
                /\ Len(userAnswers) <= Len(questions)
                /\ \A i \in 1..Len(userAnswers) : userAnswers[i].questionId = questions[i].id)
    /\ [][(quizState \in {"PLAYING", "SUMMARY", "REVIEW"}
              /\ quizState' \in {"PLAYING", "SUMMARY", "REVIEW"}) =>
             \/ userAnswers' = userAnswers
             \/ /\ Len(userAnswers') = Len(userAnswers) + 1
                /\ SubSeq(userAnswers', 1, Len(userAnswers)) = userAnswers]_vars

\* C2 witness: a finished two-question session under review
C2_Witness == quizState = "REVIEW" /\ Len(userAnswers) = 2 /\ Len(questions) = 2

\* C3: nextQuestion on the last question moves to SUMMARY and leaves the
\* index alone, on an earlier question it adds one to the index and stays in
\* PLAYING; no step from PLAYING moves the index in any other way, and
\* SUMMARY is entered only from the last question.
C3_Advance ==
    [][/\ NextQuestion =>
            IF currentQuestionIndex = Len(questions) - 1
            THEN quizState' = "SUMMARY" /\ currentQuestionIndex' = currentQuestionIndex
            ELSE quizState' = "PLAYING" /\ currentQuestionIndex' = currentQuestionIndex + 1
       /\ (quizState = "PLAYING" /\ quizState' = "PLAYING") =>
            \/ currentQuestionIndex' = currentQuestionIndex
            \/ /\ currentQuestionIndex' = currentQuestionIndex + 1
               /\ currentQuestionIndex' < Len(questions)
       /\ (quizState = "PLAYING" /\ quizState' = "SUMMARY") =>
            currentQuestionIndex = Len(questions) - 1]_vars

\* C3 witness: SUMMARY was reached from the second of two questions, whose
\* answer was incorrect
C3_Witness ==
    /\ quizState = "SUMMARY"
    /\ currentQuestionIndex = 1
    /\ Len(userAnswers) = 2
    /\ ~userAnswers[2].isCorrect

\* C4: every step that enters PLAYING ends with currentQuestionIndex = 0 and
\* userAnswers empty.
C4_EnterPlayingFresh ==
    [][(quizState # "PLAYING" /\ quizState' = "PLAYING") =>
          currentQuestionIndex' = 0 /\ userAnswers' = <<>>]_vars

\* C4 witness: SETUP with the answers and index of an earlier session left
\* behind, from which startReviewSession enters PLAYING
C4_Witness ==
    /\ quizState = "SETUP"
    /\ Len(userAnswers) > 0
    /\ currentQuestionIndex > 0
    /\ ENABLED (StartReviewSession /\ quizState' = "PLAYING")

\* the transitions of the state table
TransitionTable ==
    { <<"SETUP", "GENERATING">>, <<"SETUP", "TOPIC_SELECTION">>,
      <<"TOPIC_SELECTION", "GENERATING">>, <<"TOPIC_SELECTION", "SETUP">>,
      <<"GENERATING", "KNOWLEDGE">>, <<"GENERATING", "PLAYING">>,
      <<"GENERATING", "SETUP">>, <<"KNOWLEDGE", "PLAYING">>,
      <<"PLAYING", "SUMMARY">>, <<"SUMMARY", "REVIEW">>, <<"REVIEW", "SUMMARY">>,
      <<"SUMMARY", "SETUP">>, <<"SETUP", "PLAYING">> }

\* C5: every change of quizState is a transition of the state table.
C5_TransitionsInTable ==
    [][quizState' # quizState => <<quizState, quizState'>> \in TransitionTable]_vars

\* C6: at most one generateQuiz call awaits the provider, and only while the
\* state is GENERATING.
C6_OneInFlight ==
    /\ pendingGen <= 1
    /\ pendingGen = 1 <=> quizState = "GENERATING"

\* C6 witness: a request is in flight after an earlier session installed
\* its questions
C6_Witness == pendingGen = 1 /\ quizState = "GENERATING" /\ Len(questions) > 0

\* the response carries no question
ZeroQuestions(r) == r.kind = "ok" /\ Len(ParsedQuestions(r)) = 0

\* C7: a request that resolves with zero questions ends in SETUP with an
\* error and with the question list, answers and index untouched; PLAYING
\* and KNOWLEDGE always have a non-empty question list.
C7_EmptyResult ==
    /\ [](quizState \in {"PLAYING", "KNOWLEDGE"} => Len(questions) > 0)
    /\ [][\A r \in Responses :
            ((GenerateQuizResolve(r) \/ GenerateQuizResolveIndex(r)) /\ ZeroQuestions(r)) =>
                /\ quizState' = "SETUP"
                /\ error' # ""
                /\ questions' = questions
                /\ userAnswers' = userAnswers
                /\ currentQuestionIndex' = currentQuestionIndex]_vars

\* C8: a request that fails (the provider call rejects, the response is not
\* JSON, or it holds no usable question list) ends in SETUP with an error
\* and an empty concept summary, and neither the call nor its failure
\* changes the question list, the answers or the index.
C8_RequestFailure ==
    [][/\ (pendingGen' < pendingGen /\ quizState' = "SETUP") =>
                /\ quizState = "GENERATING"
                /\ error' # ""
                /\ quizSummary' = <<>>
                /\ questions' = questions
                /\ userAnswers' = userAnswers
                /\ currentQuestionIndex' = currentQuestionIndex
       /\ GenerateQuiz =>
                /\ questions' = questions
                /\ userAnswers' = userAnswers
                /\ currentQuestionIndex' = currentQuestionIndex]_vars

\* C9: a correct answer to a question whose contentId has no record leaves
\* the storage item unchanged.
C9_FirstSightCorrect ==
    [][(AnswerStep /\ NewVerdict /\ CurrentId \notin DOMAIN storage.data) =>
          storage' = storage]_vars

\* C9 witness: a first correct answer was given and nothing is stored
C9_Witness ==
    /\ quizState = "PLAYING"
    /\ Len(userAnswers) = 1
    /\ userAnswers[1].isCorrect
    /\ storage = Absent

\* C10: after an incorrect answer the record of the question's contentId has
\* interval 0, repetition 0, nextReview equal to the time of the update, and
\* the graded question as its snapshot.
C10_FailureResets ==
    [][(AnswerStep /\ ~NewVerdict) =>
          /\ storage'.kind = "json"
          /\ CurrentId \in DOMAIN storage'.data
          /\ storage'.data[CurrentId].id = CurrentId
          /\ storage'.data[CurrentId].interval = 0
          /\ storage'.data[CurrentId].repetition = 0
          /\ storage'.data[CurrentId].nextReview = now
          /\ storage'.data[CurrentId].question = CurrentQuestion]_vars

\* C10 witness: in one session a correct answer raised the interval of the
\* record and the incorrect answer to the next question, of the same
\* contentId, reset it
C10_Witness ==
    /\ quizState = "PLAYING"
    /\ Len(userAnswers) = 2
    /\ userAnswers[1].isCorrect
    /\ ~userAnswers[2].isCorrect
    /\ generateHash(questions[1].text) = generateHash(questions[2].text)
    /\ storage.kind = "json"
    /\ CurrentId \in DOMAIN storage.data
    /\ storage.data[CurrentId].interval = 0
    /\ storage.data[CurrentId].question = CurrentQuestion
    /\ now > 0

\* C11: a correct answer to a question that has a record adds one to the
\* record's repetition, moves its interval up the ladder by the previous
\* interval (0 gives 1, 1..2 gives 3, 3..6 gives 7, 7 and more gives at
\* least 14), and sets nextReview to the time of the update plus the new
\* interval in days.
C11_SuccessLadder ==
    [][(AnswerStep /\ NewVerdict /\ CurrentId \in DOMAIN storage.data) =>
          LET old == storage.data[CurrentId]
              new == storage'.data[CurrentId]
          IN  /\ new.repetition = old.repetition + 1
              /\ old.interval = 0 => new.interval = 1
              /\ (old.interval >= 1 /\ old.interval < 3) => new.interval = 3
              /\ (old.interval >= 3 /\ old.interval < 7) => new.interval = 7
              /\ old.interval >= 7 => new.interval >= 14
              /\ new.nextReview = now + new.interval * DayMs]_vars

\* the contentIds of the stored records whose nextReview is not after time t
DueAt(store, t) == {k \in DOMAIN store.data : store.data[k].nextReview <= t}

\* C12: whenever the due count is recomputed from a parsed store (on a
\* change of quizState or after a scheduler write) it is the number of
\* records with nextReview <= now; a review session is built from exactly
\* those records; and when the clock advances with the store unchanged
\* every record that was due is still due.
C12_DueSet ==
    [][/\ ((quizState' # quizState \/ storage' # storage) /\ storage'.kind = "json") =>
             srsDueCount' = Cardinality(DueAt(storage', now'))
       /\ (quizState = "SETUP" /\ quizState' = "PLAYING") =>
             /\ Len(questions') = Cardinality(DueAt(storage, now))
             /\ {generateHash(questions'[i].text) : i \in 1..Len(questions')}
                   = DueAt(storage, now)
       /\ (now' > now /\ storage' = storage) =>
             DueAt(storage, now) \subseteq DueAt(storage', now')]_vars

\* C12 witness: a record that was scheduled a day ahead has become due with
\* the clock, is counted and is under review
C12_Witness ==
    /\ quizState = "PLAYING"
    /\ quizSummary = <<>>
    /\ userAnswers = <<>>
    /\ now >= 1
    /\ srsDueCount = 1
    /\ storage.kind = "json"
    /\ \E k \in DOMAIN storage.data :
          /\ storage.data[k].interval >= 1
          /\ storage.data[k].nextReview = now
          /\ Len(questions) = 1
          /\ questions[1] = [storage.data[k].question EXCEPT !.id = 0]

\* a question without its session id
Snapshot(q) == [q EXCEPT !.id = 0]

\* C13: a review session started with a non-empty due set goes from SETUP to
\* PLAYING in one step, with no provider call; the installed list has one
\* question per due record, each the stored snapshot of a different due
\* record, and the ids are 0..n-1, each used once.
C13_ReviewSession ==
    [][(quizState = "SETUP" /\ quizState' = "PLAYING") =>
          LET due == DueAt(storage, now)
              n == Cardinality(due)
          IN  /\ n > 0
              /\ Len(questions') = n
              /\ pendingGen' = 0 /\ pendingGen = 0
              /\ storage' = storage
              /\ {questions'[i].id : i \in 1..n} = 0..(n - 1)
              /\ \A k \in due : \E i \in 1..n :
                    /\ Snapshot(questions'[i]) = Snapshot(storage.data[k].question)
                    /\ generateHash(questions'[i].text) = k
              /\ \A i \in 1..n : generateHash(questions'[i].text) \in due]_vars

\* C13 witness: a review session of two questions whose ids are not in list
\* order
C13_Witness ==
    /\ quizState = "PLAYING"
    /\ userAnswers = <<>>
    /\ Len(questions) = 2
    /\ questions[1].id = 1
    /\ questions[2].id = 0
    /\ generateHash(questions[1].text) # generateHash(questions[2].text)

\* C14: a review start that finds no item, an unreadable item or no due item
\* changes nothing: quizState stays SETUP and questions, userAnswers,
\* currentQuestionIndex and the SRS store are as before.
C14_EmptyReviewNoOp ==
    [][(StartReviewSession
          /\ (storage.kind # "json" \/ DueAt(storage, now) = {})) =>
             /\ quizState' = "SETUP"
             /\ UNCHANGED <<quizState, questions, userAnswers,
                            currentQuestionIndex, storage>>]_vars

\* C14 witness: the review button is shown (the count is from before the
\* item changed), the store is a map with no due record, and the handler
\* runs
C14_Witness ==
    /\ quizState = "SETUP"
    /\ srsDueCount > 0
    /\ storage.kind = "json"
    /\ DueAt(storage, now) = {}
    /\ ENABLED StartReviewSession

\* C15: while the storage item is absent or cannot be parsed the scheduler
\* acts as on an empty map: an incorrect answer writes a new map holding
\* exactly the record of the answered question, a correct answer writes
\* nothing, and a recomputation of the due count gives zero.
C15_GracefulStore ==
    [][/\ (AnswerStep /\ storage.kind # "json" /\ ~NewVerdict) =>
             /\ storage'.kind = "json"
             /\ DOMAIN storage'.data = {CurrentId}
       /\ (AnswerStep /\ storage.kind # "json" /\ NewVerdict) => storage' = storage
       /\ (quizState' # quizState /\ storage'.kind # "json") => srsDueCount' = 0]_vars

\* C16: every step in which handleAnswer appends a record also leaves the
\* storage item as one scheduler update of the graded question with the
\* appended verdict leaves it; the write is part of the same step, so it is
\* in storage before any later action.
C16_AnswerFeedsScheduler ==
    [][AnswerStep =>
          storage' = handleSRSUpdate(storage, CurrentQuestion, NewVerdict, now)]_vars

\* the positions whose submitted answer equals the correct answer
Matches == {i \in 1..Len(questions) : userAnswers[i].answer = questions[i].correctAnswer}

\* C17: at the end of a session of true/false questions with distinct
\* prompts on an empty store, the i-th verdict says whether the i-th answer
\* equals the i-th correct answer, the score is the number of equal
\* positions, and the store holds a record for exactly the prompts answered
\* incorrectly (answers true, true, true to A: true, B: false, C: true give
\* true, false, true, score 2 of 3 and one record, for B).
C17_BooleanSession ==
    quizState = "SUMMARY" =>
       /\ Len(userAnswers) = Len(questions)
       /\ \A i \in 1..Len(questions) : userAnswers[i].isCorrect = (i \in Matches)
       /\ Score(userAnswers) = Cardinality(Matches)
       /\ LET missed == {generateHash(questions[i].text) : i \in (1..Len(questions)) \ Matches}
          IN  IF missed = {} THEN storage = Absent
              ELSE storage.kind = "json" /\ DOMAIN storage.data = missed
       /\ (Len(questions) = 3 /\ \A i \in 1..3 : userAnswers[i].answer = Bool(TRUE)) =>
             /\ [i \in 1..3 |-> userAnswers[i].isCorrect] = <<TRUE, FALSE, TRUE>>
             /\ Score(userAnswers) = 2
             /\ DOMAIN storage.data = {generateHash(<<66>>)}

\* C17 witness: A, B, C were answered true, true, true
C17_Witness ==
    /\ quizState = "SUMMARY"
    /\ Len(questions) = 3
    /\ [i \in 1..3 |-> questions[i].text] = << <<65>>, <<66>>, <<67>> >>
    /\ [i \in 1..3 |-> questions[i].correctAnswer] = <<Bool(TRUE), Bool(FALSE), Bool(TRUE)>>
    /\ [i \in 1..3 |-> userAnswers[i].answer] = <<Bool(TRUE), Bool(TRUE), Bool(TRUE)>>
    /\ Score(userAnswers) = 2
    /\ Cardinality(DOMAIN storage.data) = 1

\* C18: a step from SUMMARY to SETUP (the new-session button) leaves the
\* question list, the answers, the summary and both topic lists empty and
\* the index at 0.
C18_NewSessionClears ==
    [][(quizState = "SUMMARY" /\ quizState' = "SETUP") =>
          /\ questions' = <<>>
          /\ userAnswers' = <<>>
          /\ quizSummary' = <<>>
          /\ availableTopics' = <<>>
          /\ selectedTopics' = <<>>
          /\ currentQuestionIndex' = 0]_vars

\* the three kinds of question
CanonicalKinds == {"TRUE_FALSE", "MULTIPLE_CHOICE", "RANKING"}

\* C19: whatever raw records the provider sends, the installed list has one
\* question per record, in order, the i-th with id i-1 and the text of the
\* i-th record, a kind among the three canonical kinds and a correctAnswer
\* that is neither undefined nor null.
C19_NormalizerTotal ==
    /\ [](\A i \in 1..Len(questions) :
             /\ questions[i].id = i - 1
             /\ questions[i].type \in CanonicalKinds
             /\ questions[i].correctAnswer \notin {Undef, Null})
    /\ [][\A r \in NormalizerResponses :
             (GenerateQuizResolve(r) /\ quizState' = "PLAYING") =>
                /\ Len(questions') = Len(r.questions)
                /\ \A i \in 1..Len(r.questions) :
                      r.questions[i].text # <<>> => questions'[i].text = r.questions[i].text]_vars

\* the same letter in either case
SameLetter(c, d) ==
    \/ c = d
    \/ c >= 65 /\ c <= 90 /\ d = c + 32
    \/ d >= 65 /\ d <= 90 /\ c = d + 32

\* strings that differ at most in the case of their letters
CaseVariant(s, t) == Len(s) = Len(t) /\ \A i \in 1..Len(s) : SameLetter(s[i], t[i])

\* the answer submitted in an AnswerStep
NewAnswer == userAnswers'[Len(userAnswers')].answer

\* C20: for a TRUE_FALSE or MULTIPLE_CHOICE question, submitting the
\* question's own correctAnswer, or a string that differs from its string
\* form only in letter case, is graded correct.
C20_GradeReflexive ==
    [][(AnswerStep /\ CurrentQuestion.type \in {"TRUE_FALSE", "MULTIPLE_CHOICE"}
          /\ (\/ NewAnswer = CurrentQuestion.correctAnswer
              \/ NewAnswer.t = "string"
                   /\ CaseVariant(NewAnswer.s, ToStr(CurrentQuestion.correctAnswer)))) =>
             NewVerdict]_vars

\* C20 witness: the answer "Y" to a question whose correctAnswer is "y" was
\* graded correct
C20_Witness ==
    /\ quizState = "PLAYING"
    /\ HasCurrentQuestion
    /\ CurrentQuestion.type = "MULTIPLE_CHOICE"
    /\ CurrentQuestion.correctAnswer = Str(<<121>>)
    /\ \E i \in 1..Len(userAnswers) :
          /\ userAnswers[i].questionId = CurrentQuestion.id
          /\ userAnswers[i].answer = Str(<<89>>)
          /\ userAnswers[i].isCorrect

\* the words of a string: its maximal runs of non-space characters
RECURSIVE Words(_, _)
Words(s, word) ==
    IF s = <<>> THEN (IF word = <<>> THEN <<>> ELSE <<word>>)
    ELSE IF IsSpace(s[1])
         THEN (IF word = <<>> THEN <<>> ELSE <<word>>) \o Words(Tail(s), <<>>)
         ELSE Words(Tail(s), Append(word, s[1]))

\* items that are equal up to letter case, surrounding whitespace and the
\* length of inner whitespace runs
SameItem(s, t) ==
    /\ Len(Words(s, <<>>)) = Len(Words(t, <<>>))
    /\ \A i \in 1..Len(Words(s, <<>>)) : CaseVariant(Words(s, <<>>)[i], Words(t, <<>>)[i])

Reverse(seq) == [i \in 1..Len(seq) |-> seq[Len(seq) + 1 - i]]

\* the graded question of an AnswerStep is a ranking question
RankingStep == AnswerStep /\ CurrentQuestion.type = "RANKING"

\* the order submitted in a RankingStep is the correct order reversed
ReversedSubmitted ==
    /\ Len(NewAnswer.a) = Len(CurrentQuestion.correctAnswer.a)
    /\ \A i \in 1..Len(NewAnswer.a) :
          SameItem(NewAnswer.a[i], Reverse(CurrentQuestion.correctAnswer.a)[i])

\* C21 as stated: the verdict of a ranking answer is true exactly when both
\* orders have the same length and equal items position by position up to
\* case and whitespace; a value that is not a sequence is graded false; and
\* the reversed correct order is graded false whenever the correct order
\* has more than one item and is not the same sequence as its reverse.
C21_RankingGradeAsStated ==
    [][RankingStep =>
          LET correct == CurrentQuestion.correctAnswer.a
          IN  /\ NewVerdict = (/\ Len(correct) = Len(NewAnswer.a)
                               /\ \A i \in 1..Len(correct) : SameItem(correct[i], NewAnswer.a[i]))
              /\ \A v \in {Undef, Null, Bool(TRUE), Str(Join(correct))} :
                    /\ ~isRankingCorrect(v, NewAnswer)
                    /\ ~isRankingCorrect(CurrentQuestion.correctAnswer, v)
              /\ (ReversedSubmitted /\ Len(correct) > 1 /\ Reverse(correct) # correct)
                    => ~NewVerdict]_vars

\* C21 amended: as above, with the reversed order graded false whenever
\* some item of the correct order differs from the item at the mirrored
\* position by more than case and whitespace.
C21_RankingGrade ==
    [][RankingStep =>
          LET correct == CurrentQuestion.correctAnswer.a
          IN  /\ NewVerdict = (/\ Len(correct) = Len(NewAnswer.a)
                               /\ \A i \in 1..Len(correct) : SameItem(correct[i], NewAnswer.a[i]))
              /\ \A v \in {Undef, Null, Bool(TRUE), Str(Join(correct))} :
                    /\ ~isRankingCorrect(v, NewAnswer)
                    /\ ~isRankingCorrect(CurrentQuestion.correctAnswer, v)
              /\ (/\ ReversedSubmitted
                  /\ Len(correct) > 1
                  /\ \E i \in 1..Len(correct) : ~SameItem(correct[i], Reverse(correct)[i]))
                    => ~NewVerdict]_vars

\* C21 witness: the order "C", " A<tab>b " was submitted for the correct
\* order "a  b", "c" and graded incorrect, and " A<tab>b ", "C" is accepted
C21_Witness ==
    /\ quizState = "PLAYING"
    /\ HasCurrentQuestion
    /\ CurrentQuestion.correctAnswer = Arr(<< <<97, 32, 32, 98>>, <<99>> >>)
    /\ \E i \in 1..Len(userAnswers) :
          /\ userAnswers[i].answer = Arr(<< <<67>>, <<32, 65, 9, 98, 32>> >>)
          /\ ~userAnswers[i].isCorrect
    /\ isRankingCorrect(CurrentQuestion.correctAnswer,
                        Arr(<< <<32, 65, 9, 98, 32>>, <<67>> >>))

\* the positions of the answers graded incorrect, in answer order
WrongPositions == SelectSeq([i \in 1..Len(userAnswers) |-> i],
                            LAMBDA i : ~userAnswers[i].isCorrect)

\* a sequence rendered as its items joined by " -> " (the arrow character),
\* any other value as its string form
Rendered(val) ==
    IF val.t = "array" THEN JoinWith(val.a, <<32, 8594, 32>>) ELSE ToStr(val)

\* C22: at the end of a session the export is the alert when no answer is
\* incorrect and otherwise a document with one section per incorrect
\* answer, in answer order, numbered 1, 2, ...; the k-th section shows the
\* prompt, correct answer and explanation of the question at the position
\* of the k-th incorrect answer and the answer submitted there; the export
\* step changes no variable.
C22_ExportMistakes ==
    /\ [](quizState = "SUMMARY" =>
            LET report == handleExportMistakes(questions, userAnswers)
                n == Len(WrongPositions)
            IN  IF n = 0 THEN report.kind = "alert" /\ report.entries = <<>>
                ELSE /\ report.kind = "document"
                     /\ Len(report.entries) = n
                     /\ \A k \in 1..n :
                           LET p == WrongPositions[k]
                               e == report.entries[k]
                           IN  /\ e.number = k
                               /\ p <= Len(questions)
                               /\ e.question = questions[p].text
                               /\ e.explanation = questions[p].explanation
                               /\ e.yourAnswer = Rendered(userAnswers[p].answer)
                               /\ e.correctAnswer = Rendered(questions[p].correctAnswer))
    /\ [][ExportMistakes => UNCHANGED vars]_vars

\* C22 witness: a review session whose ids are not in list order ended with
\* the first answer incorrect and the second correct
C22_Witness ==
    /\ quizState = "SUMMARY"
    /\ Len(questions) = 2
    /\ questions[1].id = 1
    /\ Len(userAnswers) = 2
    /\ ~userAnswers[1].isCorrect
    /\ userAnswers[2].isCorrect
    /\ ENABLED ExportMistakes

\* C23: the store holds one record per contentId: each record is stored
\* under its own id, which is the hash of the prompt of its snapshot, and
\* grading a question whose contentId is already in the store (the same
\* prompt or another prompt with the same hash) changes that record and
\* adds no key.
C23_OneRecordPerContentId ==
    /\ [](\A k \in DOMAIN storage.data :
             /\ storage.data[k].id = k
             /\ generateHash(storage.data[k].question.text) = k)
    /\ [][(AnswerStep /\ CurrentId \in DOMAIN storage.data) =>
             /\ DOMAIN storage'.data = DOMAIN storage.data
             /\ \A k \in DOMAIN storage.data \ {CurrentId} :
                   storage'.data[k] = storage.data[k]
             /\ storage' # storage => storage'.data[CurrentId].question = CurrentQuestion]_vars

\* C23 witness: "Aa" and then "BB", two prompts with one hash, were answered
\* incorrectly; the store holds one record, now with the snapshot of "BB"
C23_Witness ==
    /\ Len(userAnswers) = 2
    /\ ~userAnswers[1].isCorrect
    /\ ~userAnswers[2].isCorrect
    /\ Len(questions) = 2
    /\ questions[1].text = <<65, 97>>
    /\ questions[2].text = <<66, 66>>
    /\ generateHash(<<65, 97>>) = generateHash(<<66, 66>>)
    /\ DOMAIN storage.data = {generateHash(<<66, 66>>)}
    /\ storage.data[generateHash(<<66, 66>>)].question.text = <<66, 66>>

\* the kind the populated answer fields of a raw record call for
KindOfFields(q) ==
    IF \E v \in {q.correctAnswerBoolean, q.answer, q.correctAnswer} : v.t = "boolean"
    THEN "TRUE_FALSE"
    ELSE IF \E v \in {q.correctAnswerArray, q.answer, q.correctAnswer} : v.t = "array"
         THEN "RANKING"
         ELSE "MULTIPLE_CHOICE"

\* C24: when a batch is installed, a record with one of the three kinds as
\* its type tag keeps that kind, and a record without a type tag gets the
\* kind its populated answer field calls for: TRUE_FALSE for a boolean,
\* RANKING for a sequence and no boolean, MULTIPLE_CHOICE otherwise.
C24_TypeResolution ==
    [][\A r \in NormalizerResponses :
          (GenerateQuizResolve(r) /\ quizState' = "PLAYING") =>
             \A i \in 1..Len(r.questions) :
                LET q == r.questions[i]
                IN  /\ q.type \in CanonicalKinds => questions'[i].type = q.type
                    /\ q.type = "" => questions'[i].type = KindOfFields(q)]_vars

\* how often x occurs in seq
Count(seq, x) == Cardinality({i \in 1..Len(seq) : seq[i] = x})

\* seq and other list the same items the same number of times
IsPermutation(seq, other) ==
    /\ Len(seq) = Len(other)
    /\ \A x \in Range(seq) \cup Range(other) : Count(seq, x) = Count(other, x)

\* C25: a step that changes the question list or the index so that the
\* current question is a RANKING question sets the working order to that
\* question's options; while such a question is played the working order
\* is a permutation of its options, whatever arrows and drags were used;
\* moving the first item up or the last item down gives the same order.
C25_RankingOrder ==
    /\ [][((questions' # questions \/ currentQuestionIndex' # currentQuestionIndex)
             /\ currentQuestionIndex' < Len(questions')
             /\ questions'[currentQuestionIndex' + 1].type = "RANKING") =>
                rankingOrder' = questions'[currentQuestionIndex' + 1].options]_vars
    /\ []((quizState = "PLAYING" /\ HasCurrentQuestion /\ CurrentQuestion.type = "RANKING") =>
             /\ IsPermutation(rankingOrder, CurrentQuestion.options)
             /\ moveRankItem(rankingOrder, 0, "up") = rankingOrder
             /\ moveRankItem(rankingOrder, Len(rankingOrder) - 1, "down") = rankingOrder)

\* C25 witness: the three items "a", "a", "b" were brought into the order
\* "b", "a", "a"
C25_Witness ==
    /\ quizState = "PLAYING"
    /\ HasCurrentQuestion
    /\ CurrentQuestion.type = "RANKING"
    /\ CurrentQuestion.options = << <<97>>, <<97>>, <<98>> >>
    /\ rankingOrder = << <<98>>, <<97>>, <<97>> >>

\* C26: whenever the session is PLAYING the question list is not empty and
\* currentQuestionIndex is the index of one of its questions.
C26_CurrentQuestionExists ==
    quizState = "PLAYING" =>
       /\ Len(questions) > 0
       /\ currentQuestionIndex >= 0
       /\ currentQuestionIndex < Len(questions)

\* C27: in every record of the store interval is 0 exactly when repetition
\* is 0 and interval is one of 0, 1, 3, 7, 14, 30; a step that writes a
\* record sets its nextReview to the time of the step plus interval days.
C27_RecordShape ==
    /\ [](\A k \in DOMAIN storage.data :
             /\ (storage.data[k].interval = 0) <=> (storage.data[k].repetition = 0)
             /\ storage.data[k].interval \in {0, 1, 3, 7, 14, 30})
    /\ [][AnswerStep =>
             \A k \in DOMAIN storage'.data :
                (k \notin DOMAIN storage.data \/ storage'.data[k] # storage.data[k]) =>
                    storage'.data[k].nextReview = now + storage'.data[k].interval * DayMs]_vars

\* the contentIds of the questions answered incorrectly in the session
MissedIds ==
    {generateHash(questions[i].text) :
        i \in {j \in 1..Len(userAnswers) : ~userAnswers[j].isCorrect}}

\* C28: in a review session a correct answer to a due item takes it out of
\* the due set of the same instant (nextReview is at least a day ahead) and
\* an incorrect answer leaves it due; with the clock standing still the due
\* set at the end of a review session is the set of the items answered
\* incorrectly in it, empty when every answer was correct.
C28_ReviewOutcome ==
    /\ [][(AnswerStep /\ CurrentId \in DueAt(storage, now)) =>
             /\ NewVerdict =>
                   /\ CurrentId \notin DueAt(storage', now)
                   /\ storage'.data[CurrentId].nextReview >= now + DayMs
             /\ ~NewVerdict => CurrentId \in DueAt(storage', now)]_vars
    /\ [](quizState \in {"SUMMARY", "REVIEW"} =>
             /\ Len(userAnswers) = Len(questions)
             /\ DueAt(storage, now) = MissedIds)

\* C28 witness: a review session of two items ended with one correct and
\* one incorrect answer, and the item answered incorrectly is the only one
\* due
C28_Witness ==
    /\ quizState = "SUMMARY"
    /\ Len(questions) = 2
    /\ Len(userAnswers) = 2
    /\ userAnswers[1].isCorrect
    /\ ~userAnswers[2].isCorrect
    /\ DueAt(storage, now) = {generateHash(questions[2].text)}
    /\ Cardinality(DOMAIN storage.data) = 2

\* C29: the storage item changes only in a step in which handleAnswer
\* grades an answer, and no step removes a key from the stored map.
C29_OnlyGradingWrites ==
    [][/\ storage' # storage => AnswerStep
       /\ DOMAIN storage.data \subseteq DOMAIN storage'.data]_vars

\* C29 witness: back in SETUP after a session in which one of the two
\* records was updated; both records are still there
C29_Witness ==
    /\ quizState = "SETUP"
    /\ questions = <<>>
    /\ Cardinality(DOMAIN storage.data) = 2
    /\ \E k \in DOMAIN storage.data : storage.data[k].repetition = 1
    /\ \E k \in DOMAIN storage.data : storage.data[k].repetition = 0

\* the errors worth another attempt: a server-side 5xx or a network failure
Transient(e) == e.status \in {"500", "503"} \/ e.message = "fetch failed"

\* where a generateQuiz call may leave the GENERATING view
Resolved == {"KNOWLEDGE", "PLAYING", "SETUP"}

\* the attempts of the call in flight that have been made so far
ProviderCalls == attempt + 1

\* C30: callGeminiWithRetry makes at most `retries` provider calls: a success
\* at any attempt is returned at once, a non-transient error is thrown at
\* once and never retried, a transient error is retried until the final
\* attempt and thrown there, and the thrown error is the one the user sees;
\* so, provided every provider call settles, every generateQuiz call leaves
\* GENERATING, and leaves it for KNOWLEDGE, PLAYING or SETUP only
C30_RetryTerminates ==
    /\ [](pendingGen > 0 =>
            /\ ProviderCalls <= retries
            /\ \A r \in Responses : r.kind # "reject" => ENABLED ProviderCallReturned(r)
            /\ \A e \in ProviderErrors :
                  IF Transient(e) /\ ProviderCalls < retries
                  THEN ENABLED ProviderCallRetried(e) /\ ~ENABLED ProviderCallThrown(e)
                  ELSE ENABLED ProviderCallThrown(e) /\ ~ENABLED ProviderCallRetried(e))
    /\ [][/\ \A e \in ProviderErrors :
                ProviderCallThrown(e) =>
                    /\ error' = ErrorMessage(e.message)
                    /\ quizState' = "SETUP"
                    /\ pendingGen' = 0
          /\ \A e \in ProviderErrors :
                ProviderCallRetried(e) =>
                    /\ ProviderCalls' = ProviderCalls + 1
                    /\ quizState' = quizState /\ error' = error
          /\ (quizState = "GENERATING" /\ quizState' # "GENERATING") =>
                quizState' \in Resolved]_vars
    /\ (quizState = "GENERATING" ~> quizState \in Resolved)

\* the final attempt of a generateQuiz call is in flight
C30_Witness == quizState = "GENERATING" /\ pendingGen = 1 /\ ProviderCalls = retries

====
